---- MODULE Spec2Model ----
(***************************************************************************)
(* Model of the streamx pipeline engine (package pipe) and of the stages   *)
(* the addon builds on it.  Every goroutine of one run is a process with a *)
(* program counter; channels are buffers with Go's close / send / receive  *)
(* semantics; a Go select picks any ready case.                            *)
(***************************************************************************)
EXTENDS Integers, Sequences, FiniteSets, TLC

\* ------------------------------------------------------------------ bounds
SourceLen == 2          \* records the source produces in one run
NumWorkers == 2         \* workers of one stage (the code's pools are 5, 10 and 2)
BatchSize == 2          \* target size of a batch (the code's is 10)

EmitCount == 2          \* records one call of a channel stage function emits
BatchInputs == 3        \* records that reach the batch stage in a run of BatchSpec
NumProviders == 2       \* indexers a request fans out to
NumRuns == 2            \* requests handled concurrently
MaxFilterCalls == 3     \* calls of one request's dedup filter in DedupSpec

\* ------------------------------------------------------- program constants
BatchBufSize == 5       \* batchStage.getBufSize

\* The pipelines a run is built from (Map/FanOut/Filter/Channel/Batch calls).
Topologies == { <<"dedup">>, <<"channel">>, <<"batch">>, <<"map", "map">> }
MaxStages == 2

NoErr == <<0, 0>>

VARIABLES
    stages,     \* Pipe.stages: the kinds of the stages, in order
    errPos,     \* position (0 source, i stage i, Len(stages)+1 sink) whose function fails
    errOn,      \* tags of the records on which that function returns an error
    srcBatch,   \* what the source function returns
    pc,         \* position of every goroutine
    cur,        \* the record a worker (or the sink) took from its input queue
    late,       \* cur was taken after the cancellation signal was raised
    outs,       \* the records a SendRecords call still has to send
    buf,        \* contents of every queue
    closed,     \* queue has been closed
    newBatch,   \* batchStage.processNextBatch: newBatch
    shouldDrain,\* batchStage.processNextBatch: shouldDrain
    stopped,    \* Pipe.stopped has been closed
    errCh,      \* Pipe.errCh (capacity 1): NoErr when empty
    timerFired, \* the channel of time.After(timeout) is ready
    panicked,   \* "" or the runtime panic that ended the process
    retErr,     \* what SinkWithTimeout returned
    records,    \* sinkResultsWithTimeout: records (appended to by the sink callback)
    result,     \* what sinkResultsWithTimeout returned
    found,      \* deduplicateTorrent: the keys of found
    hist,       \* history of the run (observations only, never read by the code)
    world,      \* a request and what the services it calls answer
    recs,       \* the stream records of the request, each with the stage it waits at
    cache,      \* Addon.cache: the TTL cache, key -> [val, ttl]
    foundOf,    \* the found set of the dedup filter of each request
    errSlot,    \* the request's error slot ("" when empty)
    cancelled,  \* the request's cancellation signal
    last,       \* the last call of a stage function: its input and its result
    filterLog,  \* per request, the identifiers passed to its dedup filter and the verdicts
    arrived,    \* per request, the records its sink appended, in order of arrival
    ranked,     \* per request, << >> or the list the sort method returned, in a tuple
    streams     \* per request, << >> or the streams of the response, in a tuple

\* The request handlers' state: the pipe engine's actions leave it alone.
rankVars == <<arrived, ranked, streams>>
appVars == <<world, recs, cache, foundOf, errSlot, cancelled, last, filterLog, rankVars>>

vars == <<stages, errPos, errOn, srcBatch, pc, cur, late, outs, buf, closed,
          newBatch, shouldDrain, stopped, errCh, timerFired, panicked,
          retErr, records, result, found, hist, appVars>>

cfgVars == <<stages, errPos, errOn, srcBatch, appVars>>

\* The pipe engine's state: the request handlers' actions leave it alone.
pipeVars == <<stages, errPos, errOn, srcBatch, pc, cur, late, outs, buf, closed,
              newBatch, shouldDrain, stopped, errCh, timerFired, panicked,
              retErr, records, result, found, hist>>

\* ------------------------------------------------------------- goroutines
Main == <<"main", 0, 0>>
Src == <<"source", 0, 0>>
Snk == <<"sink", 0, 0>>
W(i, k) == <<"w", i, k>>
Acc(i) == <<"acc", i, 0>>
Proc(i) == <<"proc", i, 0>>

StageIds == 1..MaxStages
Workers == { W(i, k) : i \in StageIds, k \in 1..NumWorkers }
Procs == {Main, Src, Snk} \cup Workers
            \cup { Acc(i) : i \in StageIds } \cup { Proc(i) : i \in StageIds }

N == Len(stages)
KindOf(p) == IF p[2] \in 1..N THEN stages[p[2]] ELSE "none"

\* ------------------------------------------------------------------ queues
\* Queue c (0..N) links stage c to stage c+1; MaxStages+i is batchCh of stage i.
Chans == 0..(2 * MaxStages)
BatchCh(i) == MaxStages + i

\* Pipe.getBufSize: the queue into stage c+1 has that stage's buffer size.
Cap(c) == IF c < N /\ stages[c + 1] = "batch" THEN BatchBufSize ELSE 0

InCh(p) ==
    CASE p = Snk -> N
      [] p[1] = "acc" -> p[2] - 1
      [] p[1] = "w" /\ KindOf(p) = "batch" -> BatchCh(p[2])
      [] OTHER -> p[2] - 1

OutCh(p) ==
    CASE p = Src -> 0
      [] p[1] = "acc" -> BatchCh(p[2])
      [] OTHER -> p[2]

\* Goroutines blocked in a receive on queue c (range inCh).
Waiting(c) == { q \in Workers \cup {Snk} : pc[q] = "recv" /\ InCh(q) = c }

\* A send on c can proceed: buffer space, a waiting receiver, or a closed
\* queue (on which the send panics).
SendReady(c) == closed[c] \/ Len(buf[c]) < Cap(c) \/ Waiting(c) # {}

\* --------------------------------------------------------- stage functions
Fails(pos, r) == errPos = pos /\ r.tag \in errOn

\* fn of a Map stage: one input, one output.
MapFn(i, r) == << [r EXCEPT !.st = 2 * r.st + i] >>

\* fn of a Channel stage: the records one input makes it emit, in order.
ChanFn(i, r) == [ j \in 1..EmitCount |-> [r EXCEPT !.st = 10 * (2 * r.st + i) + j] ]

\* fn of a Batch stage: one output per record of the batch.
BatchFn(i, batch) == [ j \in 1..Len(batch) |-> [batch[j] EXCEPT !.st = 2 * batch[j].st + i] ]

\* Mutant: a Store that never reports the key as already present.
LoadOrStore_NeverLoaded(keys, key) == << FALSE, keys \cup {key} >>

\* sync.Map.LoadOrStore(key, struct{}{}): <<loaded, keys afterwards>>.
LoadOrStore(keys, key) == << key \in keys, keys \cup {key} >>

\* Mutant: the filter stores the identifier and keeps the record whatever
\* LoadOrStore answers.
Deduplicate_KeepLoaded(keys, r) ==
    IF r.hash = "" THEN << FALSE, keys >>
    ELSE << TRUE, LoadOrStore(keys, r.hash)[2] >>

\* The filter deduplicateTorrent returns: <<keep, keys afterwards>>.
Deduplicate(keys, r) ==
    IF r.hash = "" THEN << FALSE, keys >>
    ELSE LET ls == LoadOrStore(keys, r.hash) IN << ~ls[1], ls[2] >>

\* ------------------------------------------------------------------- Init
HashNames == << "a", "b", "c", "d" >>
ErrSets == { {}, {1}, 1..SourceLen }

\* The batches a source can return: with a dedup stage any identifiers
\* (empty and repeated ones included), otherwise one identifier per record.
SrcBatches(tp) ==
    IF \E i \in 1..Len(tp) : tp[i] = "dedup"
    THEN { [ i \in 1..SourceLen |-> [tag |-> i, hash |-> h[i], st |-> 0] ] :
              h \in [1..SourceLen -> {"", "a", "b"}] }
    ELSE { [ i \in 1..SourceLen |-> [tag |-> i, hash |-> HashNames[((i - 1) % 4) + 1], st |-> 0] ] }

InitPc(tp) ==
    [ p \in Procs |->
        CASE p = Main -> "select"
          [] p = Src -> "src_call"
          [] p = Snk -> "recv"
          [] p[1] = "w" /\ p[2] <= Len(tp) -> "recv"
          [] p[1] = "acc" /\ p[2] <= Len(tp) /\ tp[p[2]] = "batch" -> "acc_outer"
          [] p[1] = "proc" /\ p[2] <= Len(tp) -> "wait"
          [] OTHER -> "none" ]

NoHist ==
    [ firstReported |-> NoErr,  \* the first error passed to reportError
      earlyErr |-> NoErr,       \* ... when it was reported before the timer fired
      nReports |-> 0,           \* reportError calls so far
      stopCloses |-> 0,         \* close(p.stopped) executions
      timedOut |-> FALSE,       \* SinkWithTimeout took its deadline branch
      lateApply |-> FALSE,      \* a stage function was applied to an input taken after cancellation
      lateSenders |-> {},       \* goroutines that completed a send after cancellation
      lateTwice |-> FALSE,      \* one of them completed a second one
      sinkAfterRet |-> FALSE,   \* the sink callback ran after SinkWithTimeout returned
      sinkAtRet |-> << >>,      \* records when SinkWithTimeout returned
      dedupIn |-> << >>,        \* records passed to the dedup filter, in order
      dedupKept |-> << >>,      \* records the filter kept, in order
      batchIn |-> << >>,        \* records batchRecords received from inCh, in order
      groups |-> << >> ]        \* the batches passed to the batch function, in call order

\* ------------------------------------------------ request handlers, idle
Providers == 1..NumProviders
Runs == 1..NumRuns
Gids == 1..(NumProviders + 1)

\* prowlarr.Torrent: GID, InfoHash, MagnetUri, what a GET of Link yields,
\* whether the title names an avoided quality, and Size (2 GB unless said
\* otherwise, in units of 100 MB).
Torrent(g, h, m, l, q) ==
    [gid |-> g, hash |-> h, magnet |-> m, link |-> l, cam |-> q, size |-> 20]
NoTorrent == Torrent(0, "", "", "err", FALSE)

NoEntry == [val |-> "", ttl |-> 0]
EmptyCache == [ g \in Gids |-> NoEntry ]
NoCall == [fn |-> "none"]
NoWorld == [ctype |-> "movie", rd |-> FALSE, search |-> << >>, season |-> << >>]

\* No request has results to rank.
Unranked ==
    /\ arrived = [ r \in Runs |-> << >> ]
    /\ ranked = [ r \in Runs |-> << >> ]
    /\ streams = [ r \in Runs |-> << >> ]

\* No request is being handled.
NoRequest ==
    /\ world = NoWorld
    /\ recs = {}
    /\ cache = EmptyCache
    /\ foundOf = [ r \in Runs |-> {} ]
    /\ errSlot = ""
    /\ cancelled = ""
    /\ last = NoCall
    /\ filterLog = [ r \in Runs |-> << >> ]
    /\ Unranked

\* pipe.New and the stage constructors: nothing has run yet.
InitRun ==
    /\ pc = InitPc(stages)
    /\ cur = [ p \in Procs |-> << >> ]
    /\ late = [ p \in Procs |-> FALSE ]
    /\ outs = [ p \in Procs |-> << >> ]
    /\ buf = [ c \in Chans |-> << >> ]
    /\ closed = [ c \in Chans |-> FALSE ]
    /\ newBatch = << >>
    /\ shouldDrain = FALSE
    /\ stopped = FALSE
    /\ errCh = NoErr
    /\ timerFired = FALSE
    /\ panicked = ""
    /\ retErr = NoErr
    /\ records = << >>
    /\ result = << >>
    /\ found = {}
    /\ hist = NoHist

Init ==
    /\ stages \in Topologies
    /\ errOn \in ErrSets
    /\ errPos \in 0..(Len(stages) + 1)
    /\ errOn = {} => errPos = 0
    /\ (errOn # {} /\ errPos = 0) => errOn = 1..SourceLen
    /\ (\E i \in 1..Len(stages) : errPos = i /\ stages[i] = "dedup") => errOn = {}
    /\ srcBatch \in SrcBatches(stages)
    /\ InitRun
    /\ NoRequest

Alive == panicked = ""

\* ------------------------------------------------------------ continuations
\* Where a goroutine goes when SendRecords returns.
AfterSend(p) == IF p = Src THEN "close_out" ELSE "recv"

\* Where a goroutine goes when reportError returns.
AfterReport(p) ==
    CASE p = Src -> "close_out"
      [] p = Snk -> "recv"
      [] OTHER -> "done"

\* Where a goroutine goes when Stop returns.
AfterStop(p) ==
    CASE pc[p] \in {"rstop_check", "rstop_close"} -> AfterReport(p)
      [] p = Main -> "read_err"
      [] OTHER -> "done"

\* The error a goroutine at "report" passes to reportError.
ErrOf(p) ==
    IF p = Src THEN << 0, 1 >>
    ELSE LET bad == { j \in 1..Len(cur[p]) : cur[p][j].tag \in errOn }
         IN << errPos, cur[p][CHOOSE j \in bad : \A m \in bad : j <= m].tag >>

\* ------------------------------------------------------------------- Stop
\* Pipe.Stop, the select: is p.stopped already closed?
StopCheck(p) ==
    /\ Alive
    /\ pc[p] \in {"stop_check", "rstop_check"}
    /\ pc' = [pc EXCEPT ![p] =
                IF stopped THEN AfterStop(p)
                ELSE IF pc[p] = "stop_check" THEN "stop_close" ELSE "rstop_close"]
    /\ UNCHANGED <<cfgVars, cur, late, outs, buf, closed, newBatch, shouldDrain, stopped,
                   errCh, timerFired, panicked, retErr, records, result, found, hist>>

\* Pipe.Stop, the default branch: close(p.stopped).
StopClose(p) ==
    /\ Alive
    /\ pc[p] \in {"stop_close", "rstop_close"}
    /\ hist' = [hist EXCEPT !.stopCloses = @ + 1]
    /\ IF stopped
       THEN /\ panicked' = "close of closed channel: stopped"
            /\ UNCHANGED <<pc, stopped>>
       ELSE /\ stopped' = TRUE
            /\ pc' = [pc EXCEPT ![p] = AfterStop(p)]
            /\ UNCHANGED panicked
    /\ UNCHANGED <<cfgVars, cur, late, outs, buf, closed, newBatch, shouldDrain,
                   errCh, timerFired, retErr, records, result, found>>

\* ------------------------------------------------------------ reportError
\* Mutant: the call that fills the error slot returns without calling Stop.
ReportError_NoStop(p) ==
    /\ Alive
    /\ pc[p] = "report"
    /\ hist' = [hist EXCEPT !.nReports = @ + 1,
                            !.firstReported = IF @ = NoErr THEN ErrOf(p) ELSE @,
                            !.earlyErr = IF hist.nReports = 0 /\ ~timerFired
                                         THEN ErrOf(p) ELSE @]
    /\ \/ /\ stopped
          /\ UNCHANGED errCh
       \/ /\ errCh = NoErr
          /\ errCh' = ErrOf(p)
       \/ /\ ~stopped /\ errCh # NoErr
          /\ UNCHANGED errCh
    /\ pc' = [pc EXCEPT ![p] = AfterReport(p)]
    /\ cur' = [cur EXCEPT ![p] = << >>]
    /\ UNCHANGED <<cfgVars, late, outs, buf, closed, newBatch, shouldDrain, stopped,
                   timerFired, panicked, retErr, records, result, found>>

ReportError(p) ==
    /\ Alive
    /\ pc[p] = "report"
    /\ hist' = [hist EXCEPT !.nReports = @ + 1,
                            !.firstReported = IF @ = NoErr THEN ErrOf(p) ELSE @,
                            !.earlyErr = IF hist.nReports = 0 /\ ~timerFired
                                         THEN ErrOf(p) ELSE @]
    /\ \/ /\ stopped                          \* case <-p.stopped
          /\ pc' = [pc EXCEPT ![p] = AfterReport(p)]
          /\ UNCHANGED errCh
       \/ /\ errCh = NoErr                    \* case p.errCh <- err
          /\ errCh' = ErrOf(p)
          /\ pc' = [pc EXCEPT ![p] = "rstop_check"]
       \/ /\ ~stopped /\ errCh # NoErr        \* default
          /\ pc' = [pc EXCEPT ![p] = AfterReport(p)]
          /\ UNCHANGED errCh
    /\ cur' = [cur EXCEPT ![p] = << >>]
    /\ UNCHANGED <<cfgVars, late, outs, buf, closed, newBatch, shouldDrain, stopped,
                   timerFired, panicked, retErr, records, result, found>>

\* ------------------------------------------------------- SinkWithTimeout
TimerFire ==
    /\ Alive
    /\ ~timerFired
    /\ timerFired' = TRUE
    /\ UNCHANGED <<cfgVars, pc, cur, late, outs, buf, closed, newBatch, shouldDrain, stopped,
                   errCh, panicked, retErr, records, result, found, hist>>

\* select { case <-timeoutCh: p.Stop()  case <-p.stopped: }
MainSelect ==
    /\ Alive
    /\ pc[Main] = "select"
    /\ \/ /\ timerFired
          /\ pc' = [pc EXCEPT ![Main] = "stop_check"]
          /\ hist' = [hist EXCEPT !.timedOut = TRUE]
       \/ /\ stopped
          /\ pc' = [pc EXCEPT ![Main] = "read_err"]
          /\ UNCHANGED hist
    /\ UNCHANGED <<cfgVars, cur, late, outs, buf, closed, newBatch, shouldDrain, stopped,
                   errCh, timerFired, panicked, retErr, records, result, found>>

\* Mutant: the final select always takes its default branch.
ReturnValue_AlwaysNil(slot, timedOut) == NoErr

\* Mutant: the deadline branch reports the timeout as an error.
ReturnValue_TimeoutError(slot, timedOut) ==
    IF timedOut /\ slot = NoErr THEN << -1, 0 >> ELSE slot

\* The final select of SinkWithTimeout: the error in the slot, or nil.
ReturnValue(slot, timedOut) == slot

\* select { case err := <-p.errCh: return err  default: return nil }
MainReadErr ==
    /\ Alive
    /\ pc[Main] = "read_err"
    /\ retErr' = ReturnValue(errCh, hist.timedOut)
    /\ errCh' = NoErr
    /\ pc' = [pc EXCEPT ![Main] = "returned"]
    /\ hist' = [hist EXCEPT !.sinkAtRet = records]
    /\ UNCHANGED <<cfgVars, cur, late, outs, buf, closed, newBatch, shouldDrain, stopped,
                   timerFired, panicked, records, result, found>>

\* sinkResultsWithTimeout: return records.
CallerRead ==
    /\ Alive
    /\ pc[Main] = "returned"
    /\ result' = records
    /\ pc' = [pc EXCEPT ![Main] = "done"]
    /\ UNCHANGED <<cfgVars, cur, late, outs, buf, closed, newBatch, shouldDrain, stopped,
                   errCh, timerFired, panicked, retErr, records, found, hist>>

\* ------------------------------------------------------------ SendRecords
IsChanWorker(p) == p[1] = "w" /\ KindOf(p) = "channel"

\* Mutant: SendRecords returns after its first send.
NextAfterSent_FirstOnly(p, rest) ==
    IF IsChanWorker(p) THEN "is_stopped" ELSE AfterSend(p)

\* After the record at the head of outs[p] has been dealt with (sent, or given
\* up on cancellation): searchForTorrents sends one record per SendRecords
\* call and polls isStopped after each; the other callers pass the whole list.
NextAfterSent(p, rest) ==
    IF IsChanWorker(p) THEN "is_stopped"
    ELSE IF rest = << >> THEN AfterSend(p) ELSE "sr_outer"

RestAfterAbort(p) == IF IsChanWorker(p) THEN Tail(outs[p]) ELSE << >>

\* Where SendRecords goes once it has seen the signal raised.
AbortPc(p) == IF IsChanWorker(p) THEN "is_stopped" ELSE AfterSend(p)

\* Mutant: SendRecords without the outer cancellation check.
SendOuter_NoCheck(p) ==
    /\ Alive
    /\ pc[p] = "sr_outer"
    /\ pc' = [pc EXCEPT ![p] = "sr_inner"]
    /\ UNCHANGED <<cfgVars, cur, late, outs, buf, closed, newBatch, shouldDrain, stopped,
                   errCh, timerFired, panicked, retErr, records, result, found, hist>>

\* The outer select of one iteration: case <-stopped: return; default: ...
SendOuter(p) ==
    /\ Alive
    /\ pc[p] = "sr_outer"
    /\ IF stopped
       THEN /\ pc' = [pc EXCEPT ![p] = AbortPc(p)]
            /\ outs' = [outs EXCEPT ![p] = RestAfterAbort(p)]
       ELSE /\ pc' = [pc EXCEPT ![p] = "sr_inner"]
            /\ UNCHANGED outs
    /\ UNCHANGED <<cfgVars, cur, late, buf, closed, newBatch, shouldDrain, stopped,
                   errCh, timerFired, panicked, retErr, records, result, found, hist>>

\* The inner select, case <-stopped: return.
SendGiveUp(p) ==
    /\ Alive
    /\ pc[p] = "sr_inner"
    /\ stopped
    /\ pc' = [pc EXCEPT ![p] = AbortPc(p)]
    /\ outs' = [outs EXCEPT ![p] = RestAfterAbort(p)]
    /\ UNCHANGED <<cfgVars, cur, late, buf, closed, newBatch, shouldDrain, stopped,
                   errCh, timerFired, panicked, retErr, records, result, found, hist>>

\* History: goroutine p completes a send while the signal is raised.
LateSend(p) ==
    [hist EXCEPT !.lateSenders = @ \cup {p}, !.lateTwice = @ \/ p \in hist.lateSenders]

\* The inner select, case outCh <- record.
SendRecord(p) ==
    /\ Alive
    /\ pc[p] = "sr_inner"
    /\ LET c == OutCh(p)
           v == Head(outs[p])
           rest == Tail(outs[p])
       IN /\ SendReady(c)
          /\ IF closed[c]
             THEN /\ panicked' = "send on closed channel"
                  /\ UNCHANGED <<pc, outs, buf, cur, late>>
             ELSE /\ UNCHANGED panicked
                  /\ outs' = [outs EXCEPT ![p] = rest]
                  /\ \/ /\ Len(buf[c]) < Cap(c)
                        /\ buf' = [buf EXCEPT ![c] = Append(@, v)]
                        /\ pc' = [pc EXCEPT ![p] = NextAfterSent(p, rest)]
                        /\ UNCHANGED <<cur, late>>
                     \/ \E q \in Waiting(c) :
                        /\ Cap(c) = 0
                        /\ pc' = [pc EXCEPT ![p] = NextAfterSent(p, rest), ![q] = "call"]
                        /\ cur' = [cur EXCEPT ![q] = << v >>]
                        /\ late' = [late EXCEPT ![q] = stopped]
                        /\ UNCHANGED buf
    /\ hist' = IF stopped /\ ~closed[OutCh(p)] THEN LateSend(p) ELSE hist
    /\ UNCHANGED <<cfgVars, closed, newBatch, shouldDrain, stopped,
                   errCh, timerFired, retErr, records, result, found>>

\* searchForTorrents: if isStopped() { return } after every record.
IsStopped(p) ==
    /\ Alive
    /\ pc[p] = "is_stopped"
    /\ IF stopped \/ outs[p] = << >>
       THEN /\ pc' = [pc EXCEPT ![p] = "recv"]
            /\ outs' = [outs EXCEPT ![p] = << >>]
       ELSE /\ pc' = [pc EXCEPT ![p] = "sr_outer"]
            /\ UNCHANGED outs
    /\ UNCHANGED <<cfgVars, cur, late, buf, closed, newBatch, shouldDrain, stopped,
                   errCh, timerFired, panicked, retErr, records, result, found, hist>>

\* ----------------------------------------------------------------- source
\* Pipe.startSource: records, err := p.source()
SourceCall ==
    /\ Alive
    /\ pc[Src] = "src_call"
    /\ IF errPos = 0 /\ errOn # {}
       THEN /\ pc' = [pc EXCEPT ![Src] = "report"]
            /\ UNCHANGED outs
       ELSE /\ pc' = [pc EXCEPT ![Src] = IF srcBatch = << >> THEN "close_out" ELSE "sr_outer"]
            /\ outs' = [outs EXCEPT ![Src] = srcBatch]
    /\ UNCHANGED <<cfgVars, cur, late, buf, closed, newBatch, shouldDrain, stopped,
                   errCh, timerFired, panicked, retErr, records, result, found, hist>>

\* close(c), which panics on a closed queue.
CloseChan(c) ==
    IF closed[c]
    THEN /\ panicked' = "close of closed channel: queue"
         /\ UNCHANGED closed
    ELSE /\ closed' = [closed EXCEPT ![c] = TRUE]
         /\ UNCHANGED panicked

\* Pipe.startSource: defer close(outCh)
SourceClose ==
    /\ Alive
    /\ pc[Src] = "close_out"
    /\ CloseChan(0)
    /\ pc' = [pc EXCEPT ![Src] = "done"]
    /\ UNCHANGED <<cfgVars, cur, late, outs, buf, newBatch, shouldDrain, stopped,
                   errCh, timerFired, retErr, records, result, found, hist>>

\* ------------------------------------------------------------------- sink
\* for record := range inCh, when inCh is closed and drained: a worker
\* returns, the sink goes on to p.Stop().
RecvClosed(p) ==
    /\ Alive
    /\ p \in Workers \cup {Snk}
    /\ pc[p] = "recv"
    /\ closed[InCh(p)]
    /\ buf[InCh(p)] = << >>
    /\ pc' = [pc EXCEPT ![p] = IF p = Snk THEN "stop_check" ELSE "done"]
    /\ UNCHANGED <<cfgVars, cur, late, outs, buf, closed, newBatch, shouldDrain, stopped,
                   errCh, timerFired, panicked, retErr, records, result, found, hist>>

\* The sink callback of sinkResultsWithTimeout (which appends and cannot
\* fail), or a sink that returns an error.
SinkCall ==
    /\ Alive
    /\ pc[Snk] = "call"
    /\ hist' = [hist EXCEPT !.sinkAfterRet = @ \/ pc[Main] \in {"returned", "done"}]
    /\ IF Fails(N + 1, cur[Snk][1])
       THEN /\ pc' = [pc EXCEPT ![Snk] = "report"]
            /\ UNCHANGED <<records, cur>>
       ELSE /\ records' = Append(records, cur[Snk][1])
            /\ pc' = [pc EXCEPT ![Snk] = "recv"]
            /\ cur' = [cur EXCEPT ![Snk] = << >>]
    /\ late' = [late EXCEPT ![Snk] = FALSE]
    /\ UNCHANGED <<cfgVars, outs, buf, closed, newBatch, shouldDrain, stopped,
                   errCh, timerFired, panicked, retErr, result, found>>

\* ---------------------------------------------------------- stage workers
\* What the stage function of worker p returns for its input:
\* <<failed, outputs, dedup keys afterwards>>.
Apply(p) ==
    LET i == p[2]
        in == cur[p]
    IN CASE KindOf(p) = "map" ->
              IF Fails(i, in[1]) THEN << TRUE, << >>, found >>
              ELSE << FALSE, MapFn(i, in[1]), found >>
         [] KindOf(p) = "channel" ->
              IF Fails(i, in[1]) THEN << TRUE, << >>, found >>
              ELSE << FALSE, ChanFn(i, in[1]), found >>
         [] KindOf(p) = "batch" ->
              IF \E j \in 1..Len(in) : Fails(i, in[j]) THEN << TRUE, << >>, found >>
              ELSE << FALSE, BatchFn(i, in), found >>
         [] OTHER ->     \* "dedup": Filter(deduplicateTorrent())
              LET d == Deduplicate(found, in[1])
              IN << FALSE, IF d[1] THEN << in[1] >> ELSE << >>, d[2] >>

\* The body of the worker loop of simpleStage, channelStage and batchStage:
\* apply fn to the input; on an error report it and return, otherwise send
\* the outputs.
WorkerCall(p) ==
    /\ Alive
    /\ p \in Workers
    /\ pc[p] = "call"
    /\ LET a == Apply(p)
       IN /\ found' = a[3]
          /\ hist' = [hist EXCEPT
                !.lateApply = @ \/ late[p],
                !.dedupIn = IF KindOf(p) = "dedup" THEN Append(@, cur[p][1]) ELSE @,
                !.dedupKept = IF KindOf(p) = "dedup" /\ a[2] # << >>
                              THEN Append(@, cur[p][1]) ELSE @,
                !.groups = IF KindOf(p) = "batch" THEN Append(@, cur[p]) ELSE @]
          /\ IF a[1]
             THEN /\ pc' = [pc EXCEPT ![p] = "report"]
                  /\ UNCHANGED <<cur, outs>>
             ELSE /\ pc' = [pc EXCEPT ![p] = IF a[2] = << >> THEN "recv" ELSE "sr_outer"]
                  /\ outs' = [outs EXCEPT ![p] = a[2]]
                  /\ cur' = [cur EXCEPT ![p] = << >>]
    /\ late' = [late EXCEPT ![p] = FALSE]
    /\ UNCHANGED <<cfgVars, buf, closed, newBatch, shouldDrain, stopped,
                   errCh, timerFired, panicked, retErr, records, result>>

\* Mutant: process() closes outCh as soon as its first worker has returned.
StageGoroutines_FirstWorker(i) == { W(i, 1) }

\* The goroutines a stage's process() waits for before it closes outCh.
StageGoroutines(i) ==
    { W(i, k) : k \in 1..NumWorkers } \cup (IF stages[i] = "batch" THEN {Acc(i)} ELSE {})

\* process(): wg.Wait() has returned, the deferred close(outCh) runs.
StageClose(i) ==
    /\ Alive
    /\ i \in 1..N
    /\ pc[Proc(i)] = "wait"
    /\ \A q \in StageGoroutines(i) : pc[q] = "done"
    /\ CloseChan(i)
    /\ pc' = [pc EXCEPT ![Proc(i)] = "done"]
    /\ UNCHANGED <<cfgVars, cur, late, outs, buf, newBatch, shouldDrain, stopped,
                   errCh, timerFired, retErr, records, result, found, hist>>

\* ------------------------------------------------------- batch accumulator
\* Mutant: a batch is flushed only when it holds one record more than batchSize.
PnbTop_OneMore(batch, drain) ==
    IF Len(batch) = BatchSize + 1 \/ drain THEN "pnb_full" ELSE "pnb_try"

\* Mutant: the batch being accumulated when inCh closes is thrown away.
PnbTop_DropOnDrain(batch, drain) ==
    IF Len(batch) = BatchSize THEN "pnb_full"
    ELSE IF drain THEN "acc_outer" ELSE "pnb_try"

\* processNextBatch, top of its loop: a full or draining batch is flushed.
PnbTop(batch, drain) == IF Len(batch) = BatchSize \/ drain THEN "pnb_full" ELSE "pnb_try"

\* batchRecords: the outer select of its loop.
AccOuter(i) ==
    /\ Alive
    /\ pc[Acc(i)] = "acc_outer"
    /\ pc' = [pc EXCEPT ![Acc(i)] = IF stopped THEN "acc_exit" ELSE "acc_inner"]
    /\ UNCHANGED <<cfgVars, cur, late, outs, buf, closed, newBatch, shouldDrain, stopped,
                   errCh, timerFired, panicked, retErr, records, result, found, hist>>

\* batchRecords: the inner select (receive from inCh, or the signal).
AccInner(i) ==
    /\ Alive
    /\ pc[Acc(i)] = "acc_inner"
    /\ LET c == i - 1
       IN \/ /\ stopped
             /\ pc' = [pc EXCEPT ![Acc(i)] = "acc_exit"]
             /\ UNCHANGED <<buf, newBatch, shouldDrain, hist>>
          \/ /\ buf[c] # << >>
             /\ buf' = [buf EXCEPT ![c] = Tail(@)]
             /\ newBatch' = << Head(buf[c]) >>
             /\ shouldDrain' = FALSE
             /\ pc' = [pc EXCEPT ![Acc(i)] = PnbTop(newBatch', FALSE)]
             /\ hist' = [hist EXCEPT !.batchIn = Append(@, Head(buf[c]))]
          \/ /\ buf[c] = << >> /\ closed[c]
             /\ pc' = [pc EXCEPT ![Acc(i)] = "acc_exit"]
             /\ UNCHANGED <<buf, newBatch, shouldDrain, hist>>
    /\ UNCHANGED <<cfgVars, cur, late, outs, closed, stopped,
                   errCh, timerFired, panicked, retErr, records, result, found>>

\* processNextBatch, batch full or draining: select { case <-stoped: default: ... }
PnbFull(i) ==
    /\ Alive
    /\ pc[Acc(i)] = "pnb_full"
    /\ IF stopped
       THEN /\ pc' = [pc EXCEPT ![Acc(i)] = "acc_outer"]
            /\ newBatch' = << >>
       ELSE /\ pc' = [pc EXCEPT ![Acc(i)] = "pnb_flush"]
            /\ UNCHANGED newBatch
    /\ UNCHANGED <<cfgVars, cur, late, outs, buf, closed, shouldDrain, stopped,
                   errCh, timerFired, panicked, retErr, records, result, found, hist>>

\* s.batchCh <- newBatch, handed to a waiting batch worker.
SendBatch(i) ==
    LET b == BatchCh(i)
    IN /\ SendReady(b)
       /\ UNCHANGED buf
       /\ IF closed[b]
          THEN /\ panicked' = "send on closed channel"
               /\ UNCHANGED <<pc, cur, late, newBatch>>
          ELSE /\ UNCHANGED panicked
               /\ \E q \in Waiting(b) :
                    /\ pc' = [pc EXCEPT ![Acc(i)] = "acc_outer", ![q] = "call"]
                    /\ cur' = [cur EXCEPT ![q] = newBatch]
                    /\ late' = [late EXCEPT ![q] = stopped]
               /\ newBatch' = << >>
       /\ hist' = IF stopped /\ ~closed[b] THEN LateSend(Acc(i)) ELSE hist

\* processNextBatch: select { case s.batchCh <- newBatch:  case <-s.stoped: }
PnbFlush(i) ==
    /\ Alive
    /\ pc[Acc(i)] = "pnb_flush"
    /\ \/ /\ stopped
          /\ pc' = [pc EXCEPT ![Acc(i)] = "acc_outer"]
          /\ newBatch' = << >>
          /\ UNCHANGED <<cur, late, buf, panicked, hist>>
       \/ SendBatch(i)
    /\ UNCHANGED <<cfgVars, outs, closed, shouldDrain, stopped,
                   errCh, timerFired, retErr, records, result, found>>

\* A receive from inCh inside processNextBatch.
PnbRecv(i) ==
    LET c == i - 1
    IN \/ /\ buf[c] # << >>
          /\ buf' = [buf EXCEPT ![c] = Tail(@)]
          /\ newBatch' = Append(newBatch, Head(buf[c]))
          /\ pc' = [pc EXCEPT ![Acc(i)] = PnbTop(newBatch', shouldDrain)]
          /\ hist' = [hist EXCEPT !.batchIn = Append(@, Head(buf[c]))]
          /\ UNCHANGED shouldDrain
       \/ /\ buf[c] = << >> /\ closed[c]
          /\ shouldDrain' = TRUE
          /\ pc' = [pc EXCEPT ![Acc(i)] = PnbTop(newBatch, TRUE)]
          /\ UNCHANGED <<buf, newBatch, hist>>

\* processNextBatch: select { case record, ok := <-inCh: ...  default: ... }
PnbTry(i) ==
    /\ Alive
    /\ pc[Acc(i)] = "pnb_try"
    /\ IF buf[i - 1] # << >> \/ closed[i - 1]
       THEN PnbRecv(i)
       ELSE /\ pc' = [pc EXCEPT ![Acc(i)] = "pnb_block"]
            /\ UNCHANGED <<buf, newBatch, shouldDrain, hist>>
    /\ UNCHANGED <<cfgVars, cur, late, outs, closed, stopped,
                   errCh, timerFired, panicked, retErr, records, result, found>>

\* processNextBatch: the blocking select over inCh, batchCh and the signal.
PnbBlock(i) ==
    /\ Alive
    /\ pc[Acc(i)] = "pnb_block"
    /\ \/ /\ PnbRecv(i)
          /\ UNCHANGED <<cur, late, panicked>>
       \/ /\ SendBatch(i)
          /\ UNCHANGED shouldDrain
       \/ /\ stopped
          /\ pc' = [pc EXCEPT ![Acc(i)] = "acc_outer"]
          /\ newBatch' = << >>
          /\ UNCHANGED <<cur, late, buf, panicked, shouldDrain, hist>>
    /\ UNCHANGED <<cfgVars, outs, closed, stopped,
                   errCh, timerFired, retErr, records, result, found>>

\* batchRecords returns: defer close(s.batchCh), defer wg.Done().
AccExit(i) ==
    /\ Alive
    /\ pc[Acc(i)] = "acc_exit"
    /\ CloseChan(BatchCh(i))
    /\ pc' = [pc EXCEPT ![Acc(i)] = "done"]
    /\ UNCHANGED <<cfgVars, cur, late, outs, buf, newBatch, shouldDrain, stopped,
                   errCh, timerFired, retErr, records, result, found, hist>>

\* ------------------------------------------------------------------- Next
Senders == Workers \cup {Src}
Reporters == Workers \cup {Src, Snk}
Stoppers == Workers \cup {Src, Snk, Main}

Next ==
    \/ TimerFire
    \/ MainSelect
    \/ MainReadErr
    \/ CallerRead
    \/ \E p \in Stoppers : StopCheck(p)
    \/ \E p \in Stoppers : StopClose(p)
    \/ \E p \in Reporters : ReportError(p)
    \/ SourceCall
    \/ SourceClose
    \/ \E p \in Senders : SendOuter(p)
    \/ \E p \in Senders : SendGiveUp(p)
    \/ \E p \in Senders : SendRecord(p)
    \/ \E p \in Workers : IsStopped(p)
    \/ \E p \in Workers \cup {Snk} : RecvClosed(p)
    \/ SinkCall
    \/ \E p \in Workers : WorkerCall(p)
    \/ \E i \in StageIds : StageClose(i)
    \/ \E i \in StageIds : AccOuter(i)
    \/ \E i \in StageIds : AccInner(i)
    \/ \E i \in StageIds : PnbFull(i)
    \/ \E i \in StageIds : PnbFlush(i)
    \/ \E i \in StageIds : PnbTry(i)
    \/ \E i \in StageIds : PnbBlock(i)
    \/ \E i \in StageIds : AccExit(i)

Spec == Init /\ [][Next]_vars

\* ------------------------------------------- a batch stage, no cancellation
\* One Batch stage fed BatchInputs records; no function fails and the timer
\* does not fire, so the signal is raised only by the sink, at the end.
BatchInit ==
    /\ stages = << "batch" >>
    /\ errOn = {}
    /\ errPos = 0
    /\ srcBatch = [ i \in 1..BatchInputs |->
                      [tag |-> i, hash |-> HashNames[((i - 1) % 4) + 1], st |-> 0] ]
    /\ InitRun
    /\ NoRequest

BatchNext ==
    \/ MainSelect
    \/ MainReadErr
    \/ CallerRead
    \/ \E p \in Stoppers : StopCheck(p)
    \/ \E p \in Stoppers : StopClose(p)
    \/ SourceCall
    \/ SourceClose
    \/ \E p \in Senders : SendOuter(p)
    \/ \E p \in Senders : SendRecord(p)
    \/ \E p \in Workers \cup {Snk} : RecvClosed(p)
    \/ SinkCall
    \/ \E p \in Workers : WorkerCall(p)
    \/ \E i \in StageIds : StageClose(i)
    \/ \E i \in StageIds : AccOuter(i)
    \/ \E i \in StageIds : AccInner(i)
    \/ \E i \in StageIds : PnbFull(i)
    \/ \E i \in StageIds : PnbFlush(i)
    \/ \E i \in StageIds : PnbTry(i)
    \/ \E i \in StageIds : PnbBlock(i)
    \/ \E i \in StageIds : AccExit(i)

BatchSpec == BatchInit /\ [][BatchNext]_vars

\* ------------------------------------ request handlers (internal/addon)
\* The stage functions HandleGetStreams builds its pipe from, as operators,
\* and one step per call of a stage function. The pipe engine above passes
\* every record a stage emits to the next stage unless cancellation has been
\* raised, so here a record simply carries the stage it waits at.

InfoHashCacheExpiry == 86400        \* infoHashCacheExpiry, in seconds
MinSizeUnits == 1                   \* minSizeInBytes, in units of 100 MB
MaxSizeUnits == 300                 \* maxSizeInBytes, in the same units
Oversized == "big"                  \* an identifier too long for one cache entry

\* realdebrid.File: ID, has a media extension, names the episode, FileSize.
File(i, x, e, z) == [id |-> i, ext |-> x, ep |-> e, size |-> z]
Fgood == File("f1", TRUE, TRUE, 20)
Fsmall == File("f2", TRUE, TRUE, 0)
Ftext == File("f3", FALSE, FALSE, 20)
Fmovie == File("f4", TRUE, FALSE, 10)

\* What the availability backend can list for one identifier: the variants it
\* answers, each a file.
RawLists == { << >>, << Fgood, Fmovie, Fgood >>, << Ftext >>, << Fsmall >> }

\* ---- TTL cache (freecache) ----
\* cache.Get: <<value, found>>.
CacheGet(c, key) == << c[key].val, c[key].val # "" >>

\* cache.Set: <<cache afterwards, err>>; an entry larger than the cache's
\* entry limit is refused.
CacheSet(c, key, val, ttl) ==
    IF val = Oversized THEN << c, TRUE >>
    ELSE << [c EXCEPT ![key] = [val |-> val, ttl |-> ttl]], FALSE >>

\* ---- prowlarr.FetchInfoHash ----
\* ParseMagnetUri and InfoHashStr: <<identifier, err>> of a magnet URI.
ParseMagnetUri(m) ==
    CASE m = "magnet:a" -> << "a", FALSE >>
      [] m = "magnet:b" -> << "b", FALSE >>
      [] m = "magnet:" -> << "", FALSE >>
      [] OTHER -> << "", TRUE >>

\* [t: the torrent afterwards, err, asked: the identifier had to be derived].
FetchInfoHash(t) ==
    IF t.hash # "" THEN [t |-> t, err |-> FALSE, asked |-> FALSE]
    ELSE IF t.magnet = "" /\ t.link \in {"err", "none"}
    THEN [t |-> t, err |-> TRUE, asked |-> TRUE]
    ELSE LET m == IF t.magnet # "" THEN t.magnet ELSE t.link
             pm == ParseMagnetUri(m)
             t1 == [t EXCEPT !.magnet = m]
         IN IF pm[2] THEN [t |-> t1, err |-> TRUE, asked |-> TRUE]
            ELSE [t |-> [t1 EXCEPT !.hash = pm[1]], err |-> FALSE, asked |-> TRUE]

\* ---- enrichInfoHash ----
\* Lines 515-520: the identifier after the cache lookup, and how it was found.
LookupInfoHash(c, t) ==
    IF t.hash # "" THEN << t, "embedded" >>
    ELSE LET g == CacheGet(c, t.gid)
         IN IF g[2] THEN << [t EXCEPT !.hash = g[1]], "hit" >> ELSE << t, "miss" >>

\* Mutant: the provider is asked before the identifier found in the cache is used.
EnrichInfoHash_AlwaysAsk(c, r) ==
    LET f == FetchInfoHash(r.tor)
        st == CacheSet(c, f.t.gid, f.t.hash, InfoHashCacheExpiry)
        r1 == [r EXCEPT !.tor = f.t]
    IN IF f.err \/ f.t.hash = ""
       THEN [outs |-> << >>, err |-> FALSE, cache |-> c, asked |-> TRUE,
             resolved |-> "", set |-> << >>, setErr |-> FALSE]
       ELSE [outs |-> IF st[2] THEN << >> ELSE << r1 >>, err |-> FALSE, cache |-> st[1],
             asked |-> TRUE, resolved |-> f.t.hash,
             set |-> << f.t.gid, f.t.hash, InfoHashCacheExpiry >>, setErr |-> st[2]]

\* Lines 522-539: [outs, err: the error returned to the stage, cache
\* afterwards, asked, resolved: the identifier found ("" when none), set: the
\* arguments of cache.Set when it was called, setErr].
EnrichInfoHash(c, r) ==
    LET f == FetchInfoHash(r.tor)
        st == CacheSet(c, f.t.gid, f.t.hash, InfoHashCacheExpiry)
        r1 == [r EXCEPT !.tor = f.t]
    IN IF f.err \/ f.t.hash = ""
       THEN [outs |-> << >>, err |-> FALSE, cache |-> c, asked |-> f.asked,
             resolved |-> "", set |-> << >>, setErr |-> FALSE]
       ELSE [outs |-> IF st[2] THEN << >> ELSE << r1 >>, err |-> FALSE, cache |-> st[1],
             asked |-> f.asked, resolved |-> f.t.hash,
             set |-> << f.t.gid, f.t.hash, InfoHashCacheExpiry >>, setErr |-> st[2]]

\* ---- realdebrid.GetFiles ----
RECURSIVE UniqueById(_, _)
UniqueById(fs, ids) ==
    IF fs = << >> THEN << >>
    ELSE IF Head(fs).id \in ids THEN UniqueById(Tail(fs), ids)
    ELSE << Head(fs) >> \o UniqueById(Tail(fs), ids \cup {Head(fs).id})

\* The map GetFiles returns for the backend's answer raw (a function from the
\* identifiers it answers to their variants): only identifiers with at least
\* one file become keys, each file listed once.
GetFiles(raw) ==
    LET keys == { h \in DOMAIN raw : raw[h] # << >> }
    IN [ h \in keys |-> UniqueById(raw[h], {}) ]

\* ---- enrichWithCachedFiles ----
\* The identifiers the lookup asks for (lines 553-561), as a set.
RequestedHashes(batch) == { batch[j].tor.hash : j \in DOMAIN batch } \ {""}

\* Mutant: the file list is written into the input record itself.
EnrichWithCachedFiles_InPlace(rd, batch, failed, filesByHash) ==
    LET has(r) == r.tor.hash \in DOMAIN filesByHash
        kept == SelectSeq(batch, has)
        ann == [ j \in DOMAIN kept |-> [kept[j] EXCEPT !.files = filesByHash[kept[j].tor.hash]] ]
    IN IF batch = << >> \/ ~rd \/ failed
       THEN [outs |-> batch, err |-> FALSE, ins |-> batch]
       ELSE [outs |-> ann, err |-> FALSE,
             ins |-> [ j \in DOMAIN batch |->
                        IF has(batch[j])
                        THEN [batch[j] EXCEPT !.files = filesByHash[batch[j].tor.hash]]
                        ELSE batch[j] ]]

\* Mutant: a failed lookup is returned to the stage as an error.
EnrichWithCachedFiles_FailRun(rd, batch, failed, filesByHash) ==
    LET has(r) == r.tor.hash \in DOMAIN filesByHash
        kept == SelectSeq(batch, has)
    IN IF batch = << >> \/ ~rd
       THEN [outs |-> batch, err |-> FALSE, ins |-> batch]
       ELSE IF failed THEN [outs |-> << >>, err |-> TRUE, ins |-> batch]
       ELSE [outs |-> [ j \in DOMAIN kept |->
                          [kept[j] EXCEPT !.files = filesByHash[kept[j].tor.hash]] ],
             err |-> FALSE, ins |-> batch]

\* [outs, err, ins: the input records after the call]. failed: GetFiles
\* returned an error; filesByHash: the map it returned otherwise.
EnrichWithCachedFiles(rd, batch, failed, filesByHash) ==
    LET has(r) == r.tor.hash \in DOMAIN filesByHash
        kept == SelectSeq(batch, has)
    IN IF batch = << >> \/ ~rd \/ failed
       THEN [outs |-> batch, err |-> FALSE, ins |-> batch]
       ELSE [outs |-> [ j \in DOMAIN kept |->
                          [kept[j] EXCEPT !.files = filesByHash[kept[j].tor.hash]] ],
             err |-> FALSE, ins |-> batch]

\* ---- parseTorrentTitle, excludeTorrents ----
\* titleparser.Parse: a MetaInfo is always returned; its Quality.
ParseTorrentTitle(r) == [r EXCEPT !.titleInfo = IF r.tor.cam THEN "cam" ELSE "hd"]

\* excludeTorrents, its quality test (the other tests pass in this model).
ExcludeTorrents(r) == r.titleInfo # "cam"

\* ---- locateMediaFile ----
\* The loop of both finders over the files that pass their test: the first
\* of the largest.
RECURSIVE LargestFile(_, _)
LargestFile(fs, best) ==
    IF fs = << >> THEN best
    ELSE LET f == Head(fs)
         IN LargestFile(Tail(fs),
                IF best = << >> \/ best[1].size < f.size THEN << f >> ELSE best)

\* findMovieMediaFile, findEpisodeMediaFile: << >> is nil.
FindMovieMediaFile(fs) ==
    LET T(f) == f.ext IN LargestFile(SelectSeq(fs, T), << >>)
FindEpisodeMediaFile(fs) ==
    LET T(f) == f.ext /\ f.ep IN LargestFile(SelectSeq(fs, T), << >>)

\* Mutant: a record whose file list holds no media file is emitted as it is.
LocateMediaFile_KeepUnlocated(rd, ctype, r) ==
    IF ~rd \/ r.files = << >>
    THEN [outs |-> << [r EXCEPT !.mediaFile = << File(r.tor.hash, FALSE, FALSE, r.tor.size) >>] >>,
          err |-> FALSE]
    ELSE IF ctype \notin {"movie", "series"} THEN [outs |-> << >>, err |-> TRUE]
    ELSE LET m == IF ctype = "movie" THEN FindMovieMediaFile(r.files)
                  ELSE FindEpisodeMediaFile(r.files)
         IN [outs |-> << [r EXCEPT !.mediaFile = m] >>, err |-> FALSE]

\* [outs, err].
LocateMediaFile(rd, ctype, r) ==
    IF ~rd \/ r.files = << >>
    THEN [outs |-> << [r EXCEPT !.mediaFile = << File(r.tor.hash, FALSE, FALSE, r.tor.size) >>] >>,
          err |-> FALSE]
    ELSE IF ctype \notin {"movie", "series"} THEN [outs |-> << >>, err |-> TRUE]
    ELSE LET m == IF ctype = "movie" THEN FindMovieMediaFile(r.files)
                  ELSE FindEpisodeMediaFile(r.files)
         IN IF m = << >> THEN [outs |-> << >>, err |-> FALSE]
            ELSE IF m[1].size >= MaxSizeUnits \/ m[1].size < MinSizeUnits
            THEN [outs |-> << >>, err |-> FALSE]
            ELSE [outs |-> << [r EXCEPT !.mediaFile = m] >>, err |-> FALSE]

\* ---- searchForTorrents ----
\* A streamRecord: the stage it waits at ("sunk": appended by the sink,
\* "dropped": emitted by no stage, with the reason), its fields, and how
\* enrichInfoHash found its identifier.
StreamRecord(id, prov, at, tor) ==
    [id |-> id, prov |-> prov, at |-> at, why |-> "", tor |-> tor,
     titleInfo |-> "nil", files |-> << >>, mediaFile |-> << >>, lookup |-> ""]

Seed == StreamRecord(0, 0, "source", NoTorrent)

\* The records sendAllRecords emits for a search answer: copies of r, one per
\* torrent.
NewRecords(r, torrents, base) ==
    [ j \in DOMAIN torrents |-> StreamRecord(10 * r.prov + base + j, r.prov, "parse", torrents[j]) ]

\* Mutant: a failed search is returned to the stage as an error.
SearchForTorrents_ReturnError(r, ctype, prim, seas, limit, isStopped) ==
    [outs |-> << >>, err |-> prim.err]

\* A search answer is [err, torrents]. prim: SearchMovieTorrents or
\* SearchSeriesTorrents; seas: SearchSeasonTorrents; limit: LimitDefaults.
SearchForTorrents(r, ctype, prim, seas, limit, isStopped) ==
    CASE ctype = "movie" ->
            IF prim.err THEN [outs |-> << >>, err |-> FALSE]
            ELSE [outs |-> NewRecords(r, prim.torrents, 0), err |-> FALSE]
      [] ctype = "series" ->
            IF prim.err THEN [outs |-> << >>, err |-> FALSE]
            ELSE IF ~isStopped /\ Len(prim.torrents) = limit /\ limit > 0
            THEN [outs |-> NewRecords(r, prim.torrents, 0)
                            \o NewRecords(r, IF seas.err THEN << >> ELSE seas.torrents, 5),
                  err |-> FALSE]
            ELSE [outs |-> NewRecords(r, prim.torrents, 0), err |-> FALSE]
      [] OTHER -> [outs |-> << >>, err |-> FALSE]

\* ---- a request ----
\* GetAllIndexers: NumProviders enabled indexers and a disabled one.
AllIndexers == [ p \in 1..(NumProviders + 1) |-> [id |-> p, enable |-> p <= NumProviders] ]

\* Indexer.Capabilities.LimitDefaults.
LimitDefaults(p) == IF p = 1 THEN 1 ELSE 0

\* What the indexers can answer.
TorrentKinds(g) ==
    { Torrent(g, "a", "", "err", FALSE),        \* identifier embedded
      Torrent(g, "", "magnet:a", "err", FALSE),        \* magnet URI embedded
      Torrent(g, "", "", "magnet:b", FALSE),           \* identifier behind the link
      Torrent(g, "", "", "none", FALSE),        \* nothing behind the link
      Torrent(g, "", "magnet:", "err", FALSE),   \* magnet URI without identifier
      Torrent(g, Oversized, "", "err", FALSE),  \* identifier of excessive length
      Torrent(g, "b", "", "err", TRUE) }        \* an avoided quality

\* A movie request: every indexer lists one torrent. A series request: the
\* first indexer lists one torrent, its default limit, and one more for the
\* season; the others list none.
Worlds ==
    { [ctype |-> "movie", rd |-> rd,
       search |-> [ p \in Providers |-> << IF p = 1 THEN t1 ELSE t2 >> ],
       season |-> [ p \in Providers |-> << >> ]] :
        rd \in BOOLEAN, t1 \in TorrentKinds(1),
        t2 \in { Torrent(1, "", "magnet:a", "err", FALSE), Torrent(2, "a", "", "err", FALSE),
                 Torrent(2, "", "", "magnet:b", FALSE) } }
    \cup
    { [ctype |-> "series", rd |-> rd,
       search |-> [ p \in Providers |-> IF p = 1 THEN << t1 >> ELSE << >> ],
       season |-> [ p \in Providers |-> IF p = 1 THEN << t3 >> ELSE << >> ]] :
        rd \in BOOLEAN, t1 \in TorrentKinds(1),
        t3 \in { Torrent(1, "", "magnet:a", "err", FALSE), Torrent(2, "a", "", "err", FALSE) } }

\* A request whose source is about to run; the cache holds what earlier
\* requests left in it.
AppInit ==
    /\ stages = << >>
    /\ errOn = {}
    /\ errPos = 0
    /\ srcBatch = << >>
    /\ InitRun
    /\ world \in Worlds
    /\ recs = {Seed}
    /\ cache \in { EmptyCache,
                   [EmptyCache EXCEPT ![1] = [val |-> "a", ttl |-> InfoHashCacheExpiry]] }
    /\ foundOf = [ r \in Runs |-> {} ]
    /\ errSlot = ""
    /\ cancelled = ""
    /\ last = NoCall
    /\ filterLog = [ r \in Runs |-> << >> ]
    /\ Unranked

At(stage) == { r \in recs : r.at = stage }
Put(r, stage) == [r EXCEPT !.at = stage]
Drop(r, why) == [r EXCEPT !.at = "dropped", !.why = why]
Range1(s) == { s[j] : j \in DOMAIN s }
Settled == {"sunk", "dropped", "done"}

RECURSIVE SeqById(_)
SeqById(S) ==
    IF S = {} THEN << >>
    ELSE LET r == CHOOSE x \in S : \A y \in S : x.id <= y.id
         IN << r >> \o SeqById(S \ {r})

\* reportError: the first error takes the slot, and cancellation is raised.
Report(e) ==
    /\ errSlot' = IF errSlot = "" THEN e ELSE errSlot
    /\ cancelled' = IF cancelled = "" THEN "error" ELSE cancelled

\* What a stage does with the result of its function on r: emit, or report.
Emit(r, res, next, why) ==
    IF res.err
    THEN /\ recs' = (recs \ {r}) \cup {Drop(r, "error")}
         /\ Report(why)
    ELSE /\ recs' = (recs \ {r}) \cup (IF res.outs = << >> THEN {Drop(r, why)}
                                       ELSE { Put(x, next) : x \in Range1(res.outs) })
         /\ UNCHANGED <<errSlot, cancelled>>

\* The source function (sourceFromContextWithUserData).
SourceStep ==
    /\ \E r \in At("source") : \E e \in BOOLEAN :
          Emit(r, [outs |-> << r >>, err |-> e], "meta", "source")
    /\ UNCHANGED <<world, cache, foundOf, last, filterLog, pipeVars, rankVars>>

\* p.Map(add.fetchMetaInfo)
FetchMetaInfoStep ==
    /\ \E r \in At("meta") : \E e \in BOOLEAN :
          Emit(r, [outs |-> << r >>, err |-> e], "indexers", "meta")
    /\ UNCHANGED <<world, cache, foundOf, last, filterLog, pipeVars, rankVars>>

\* fanOutToAllIndexers: [outs, err] for the answer of GetAllIndexers.
FanOutToAllIndexers(r, failed, indexers) ==
    IF failed THEN [outs |-> << >>, err |-> TRUE]
    ELSE LET on == SelectSeq(indexers, LAMBDA x : x.enable)
         IN [outs |-> [ j \in DOMAIN on |-> StreamRecord(on[j].id, on[j].id, "search", NoTorrent) ],
             err |-> FALSE]

\* p.FanOut(add.fanOutToAllIndexers)
FanOutStep ==
    /\ \E r \in At("indexers") : \E e \in BOOLEAN :
          LET res == FanOutToAllIndexers(r, e, AllIndexers)
          IN IF res.err THEN Emit(r, res, "search", "indexers")
             ELSE /\ recs' = (recs \ {r}) \cup {Put(r, "done")} \cup Range1(res.outs)
                  /\ UNCHANGED <<errSlot, cancelled>>
    /\ UNCHANGED <<world, cache, foundOf, last, filterLog, pipeVars, rankVars>>

\* p.Channel(add.searchForTorrents): the provider's record stays, marked with
\* the outcome of its search.
SearchStep ==
    /\ \E r \in At("search") : \E pe, se \in BOOLEAN :
          LET prim == [err |-> pe, torrents |-> world.search[r.prov]]
              seas == [err |-> se, torrents |-> world.season[r.prov]]
              res == SearchForTorrents(r, world.ctype, prim, seas,
                                       LimitDefaults(r.prov), cancelled # "")
          IN /\ IF res.err
                THEN Emit(r, res, "parse", "search")
                ELSE /\ recs' = (recs \ {r})
                                  \cup {[Put(r, "done") EXCEPT !.why = IF pe THEN "failed" ELSE "ok"]}
                                  \cup Range1(res.outs)
                     /\ UNCHANGED <<errSlot, cancelled>>
             /\ last' = [fn |-> "searchForTorrents", prov |-> r.prov, failed |-> pe,
                         emitted |-> Len(res.outs), err |-> res.err]
    /\ UNCHANGED <<world, cache, foundOf, filterLog, pipeVars, rankVars>>

\* p.Map(add.parseTorrentTitle)
ParseStep ==
    /\ \E r \in At("parse") :
          Emit(r, [outs |-> << ParseTorrentTitle(r) >>, err |-> FALSE], "exclude", "parse")
    /\ UNCHANGED <<world, cache, foundOf, last, filterLog, pipeVars, rankVars>>

\* p.Filter(add.createExcludeTorrentsFilter())
ExcludeStep ==
    /\ \E r \in At("exclude") :
          Emit(r, [outs |-> IF ExcludeTorrents(r) THEN << r >> ELSE << >>, err |-> FALSE],
               "hash", "excluded")
    /\ UNCHANGED <<world, cache, foundOf, last, filterLog, pipeVars, rankVars>>

\* enrichInfoHash, lines 515-520: the cache lookup.
LookupStep ==
    /\ \E r \in At("hash") :
          LET l == LookupInfoHash(cache, r.tor)
          IN recs' = (recs \ {r}) \cup {[r EXCEPT !.at = "fetch", !.tor = l[1], !.lookup = l[2]]}
    /\ UNCHANGED <<world, cache, foundOf, errSlot, cancelled, last, filterLog, pipeVars, rankVars>>

\* enrichInfoHash, lines 522-539: FetchInfoHash, then cache.Set.
EnrichStep ==
    /\ \E r \in At("fetch") :
          LET res == EnrichInfoHash(cache, r)
          IN /\ Emit(r, res, "dedup", IF res.resolved = "" THEN "unresolved" ELSE "cache")
             /\ cache' = res.cache
             /\ last' = [fn |-> "enrichInfoHash", lookup |-> r.lookup, gid |-> r.tor.gid,
                         asked |-> res.asked, resolved |-> res.resolved, set |-> res.set,
                         setErr |-> res.setErr, err |-> res.err,
                         emitted |-> res.outs # << >>, entry |-> res.cache[r.tor.gid]]
    /\ UNCHANGED <<world, foundOf, filterLog, pipeVars, rankVars>>

\* Mutant: every request's filter uses the found set of the first request.
FoundFor_Shared(run) == 1

\* The found set the filter built for a request uses (deduplicateTorrent()
\* is called once per HandleGetStreams).
FoundFor(run) == run

\* One call of the filter deduplicateTorrent() returned to request run.
FilterCall(run, r) ==
    LET d == Deduplicate(foundOf[FoundFor(run)], [hash |-> r.tor.hash])
    IN /\ foundOf' = [foundOf EXCEPT ![FoundFor(run)] = d[2]]
       /\ filterLog' = [filterLog EXCEPT ![run] = Append(@, << r.tor.hash, d[1] >>)]

\* p.Filter(deduplicateTorrent())
DedupStep ==
    /\ \E r \in At("dedup") :
          /\ FilterCall(1, r)
          /\ Emit(r, [outs |-> IF Deduplicate(foundOf[FoundFor(1)], [hash |-> r.tor.hash])[1]
                               THEN << r >> ELSE << >>, err |-> FALSE],
                  "files", IF r.tor.hash = "" THEN "empty" ELSE "duplicate")
    /\ UNCHANGED <<world, cache, last, pipeVars, rankVars>>

\* What the availability backend can answer when asked for the identifiers hs.
RawResponses(hs) == UNION { [ks -> RawLists] : ks \in SUBSET hs }

\* p.Batch(add.enrichWithCachedFiles), on any group the accumulator can form.
BatchStep ==
    /\ \E S \in SUBSET At("files") :
          /\ S # {}
          /\ Cardinality(S) <= BatchSize
          /\ LET batch == SeqById(S)
             IN \E failed \in BOOLEAN : \E raw \in RawResponses(RequestedHashes(batch)) :
                   LET res == EnrichWithCachedFiles(world.rd, batch, failed, GetFiles(raw))
                       gone == { x \in S : \A j \in DOMAIN res.outs : res.outs[j].id # x.id }
                   IN /\ (failed \/ ~world.rd) => DOMAIN raw = {}
                      /\ IF res.err
                         THEN /\ recs' = (recs \ S) \cup { Drop(x, "error") : x \in S }
                              /\ Report("files")
                         ELSE /\ recs' = (recs \ S) \cup { Drop(x, "uncached") : x \in gone }
                                           \cup { Put(x, "locate") : x \in Range1(res.outs) }
                              /\ UNCHANGED <<errSlot, cancelled>>
                      /\ last' = [fn |-> "enrichWithCachedFiles", batch |-> batch,
                                  failed |-> failed, rd |-> world.rd,
                                  filesByHash |-> GetFiles(raw),
                                  outs |-> res.outs, ins |-> res.ins, err |-> res.err]
    /\ UNCHANGED <<world, cache, foundOf, filterLog, pipeVars, rankVars>>

\* p.FanOut(add.locateMediaFile)
LocateStep ==
    /\ \E r \in At("locate") :
          LET res == LocateMediaFile(world.rd, world.ctype, r)
          IN Emit(r, res, "sink", IF res.err THEN "locate" ELSE "nofile")
    /\ UNCHANGED <<world, cache, foundOf, last, filterLog, pipeVars, rankVars>>

\* sinkResultsWithTimeout's callback: records = append(records, r).
SinkStep ==
    /\ \E r \in At("sink") : recs' = (recs \ {r}) \cup {Put(r, "sunk")}
    /\ UNCHANGED <<world, cache, foundOf, errSlot, cancelled, last, filterLog, pipeVars, rankVars>>

\* SinkWithTimeout: the deadline branch calls Stop.
Deadline ==
    /\ cancelled = ""
    /\ cancelled' = "deadline"
    /\ UNCHANGED <<world, recs, cache, foundOf, errSlot, last, filterLog, pipeVars, rankVars>>

\* startSink: its input queue is closed and drained, it calls Stop.
Complete ==
    /\ cancelled = ""
    /\ \A r \in recs : r.at \in Settled
    /\ cancelled' = "done"
    /\ UNCHANGED <<world, recs, cache, foundOf, errSlot, last, filterLog, pipeVars, rankVars>>

AppNext ==
    \/ SourceStep
    \/ FetchMetaInfoStep
    \/ FanOutStep
    \/ SearchStep
    \/ ParseStep
    \/ ExcludeStep
    \/ LookupStep
    \/ EnrichStep
    \/ DedupStep
    \/ BatchStep
    \/ LocateStep
    \/ SinkStep
    \/ Deadline
    \/ Complete

AppSpec == AppInit /\ [][AppNext]_vars

\* ---- two requests and their dedup filters ----
DedupInit ==
    /\ stages = << >>
    /\ errOn = {}
    /\ errPos = 0
    /\ srcBatch = << >>
    /\ InitRun
    /\ NoRequest

\* A worker of the dedup stage of request run passes a record to the filter.
FilterStep ==
    /\ \E run \in Runs : \E h \in {"", "a", "b"} :
          /\ Len(filterLog[run]) < MaxFilterCalls
          /\ FilterCall(run, StreamRecord(0, 0, "dedup", Torrent(0, h, "", "err", FALSE)))
    /\ UNCHANGED <<world, recs, cache, errSlot, cancelled, last, pipeVars, rankVars>>

DedupNext == FilterStep

DedupSpec == DedupInit /\ [][DedupNext]_vars

\* --------------------------------------------- ranking (internal/addon)
\* A streamRecord as the ranking reads it: TitleInfo.Resolution,
\* TitleInfo.Quality, MediaFile.FileSize in tenths of a GB, Torrent.Seeders,
\* and whether RDClient != nil && len(Files) > 0.
Scored(id, res, q, size, seeders, cached) ==
    [id |-> id, res |-> res, quality |-> q, size |-> size, seeders |-> seeders,
     cached |-> cached]

Min(a, b) == IF a < b THEN a ELSE b

\* Scores are kept as integers: the float64 score times ScoreUnit (the
\* resolution score is Resolution / 21.6, the weights are hundredths).
ScoreUnit == 21600

\* getQualityScore.
GetQualityScore(quality) ==
    CASE quality \in {"bdremux", "brremux"} -> 10
      [] quality \in {"web-dl", "webrip"} -> 9
      [] quality = "bluray" -> 8
      [] quality = "hdrip" -> 7
      [] quality = "dvdrip" -> 6
      [] quality = "dvd" -> 5
      [] quality = "tvrip" -> 4
      [] quality \in {"cam", "camrip", "telesync", "tsrip"} -> 1
      [] OTHER -> 3

\* One if / else-if chain of the size score: the three ranges, in tenths of
\* a GB, both ends included.
SizeBand(sz, o1, o2, a1, a2, t1, t2) ==
    IF sz >= o1 /\ sz <= o2 THEN 100
    ELSE IF sz >= a1 /\ sz <= a2 THEN 80
    ELSE IF sz >= t1 /\ sz <= t2 THEN 60
    ELSE 20

\* calculateQualityScore, lines 632-675: sizeScore.
SizeScore(res, sz) ==
    IF res >= 2160 THEN SizeBand(sz, 150, 300, 100, 400, 50, 500)
    ELSE IF res >= 1080 THEN SizeBand(sz, 40, 150, 20, 200, 10, 250)
    ELSE IF res >= 720 THEN SizeBand(sz, 10, 80, 5, 120, 3, 150)
    ELSE SizeBand(sz, 5, 40, 2, 60, 1, 80)

\* Mutant: the seeder score is not capped at 100.
CalculateQualityScore_SeedersUncapped(r) ==
    LET rs == Min(21600, r.res * 10)
        ss == GetQualityScore(r.quality) * 10
        zs == SizeScore(r.res, r.size)
    IN IF r.cached THEN 50 * rs + 216 * (35 * ss + 15 * zs)
       ELSE 216 * 40 * r.seeders + 30 * rs + 216 * (20 * ss + 10 * zs)

\* calculateQualityScore, times ScoreUnit: rs is the resolution score times
\* 216, the weights are times 100.
CalculateQualityScore(r) ==
    LET rs == Min(21600, r.res * 10)
        ss == GetQualityScore(r.quality) * 10
        zs == SizeScore(r.res, r.size)
    IN IF r.cached THEN 50 * rs + 216 * (35 * ss + 15 * zs)
       ELSE 216 * 40 * Min(100, r.seeders) + 30 * rs + 216 * (20 * ss + 10 * zs)

\* ---- calculateQualityScore on one record ----
Resolutions == {0, 360, 480, 720, 1080, 1440, 2160, 4320}
Qualities == {"", "bdremux", "brremux", "web-dl", "webrip", "bluray", "hdrip", "dvdrip",
              "dvd", "tvrip", "cam", "camrip", "telesync", "tsrip", "hdtv", "hdcam"}
SizesTenthGB == {0, 1, 2, 3, 5, 9, 10, 20, 40, 50, 60, 80, 81, 100, 120, 150, 151, 200,
                 250, 300, 301, 400, 500, 501}
SeederCounts == {0, 1, 50, 100, 150}

ScoreInit ==
    /\ stages = << >>
    /\ errOn = {}
    /\ errPos = 0
    /\ srcBatch = << >>
    /\ InitRun
    /\ world \in { Scored(1, res, q, sz, sd, c) :
                       res \in Resolutions, q \in Qualities, sz \in SizesTenthGB,
                       sd \in SeederCounts, c \in BOOLEAN }
    /\ recs = {}
    /\ cache = EmptyCache
    /\ foundOf = [ r \in Runs |-> {} ]
    /\ errSlot = ""
    /\ cancelled = ""
    /\ last = NoCall
    /\ filterLog = [ r \in Runs |-> << >> ]
    /\ Unranked

\* One call of calculateQualityScore.
ScoreStep ==
    /\ last = NoCall
    /\ last' = [fn |-> "calculateQualityScore", r |-> world,
                sourceScore |-> GetQualityScore(world.quality) * 10,
                score |-> CalculateQualityScore(world)]
    /\ UNCHANGED <<world, recs, cache, foundOf, errSlot, cancelled, filterLog, pipeVars, rankVars>>

ScoreNext == ScoreStep

ScoreSpec == ScoreInit /\ [][ScoreNext]_vars

\* --------------------------------------- exclusion filter (internal/addon)
\* uint is kept at 16 bits here; int is the signed type of the same width.
UintModulus == 65536
MaxInt == (UintModulus \div 2) - 1
ToUint(n) == IF n < 0 THEN UintModulus + n ELSE n

\* strconv.Atoi, its value (excludeTorrents discards the error): 0 for a
\* string that is no number, the nearest int for one out of range.
Atoi(s) ==
    CASE s = "0" -> 0 [] s = "1" -> 1 [] s = "3" -> 3 [] s = "10" -> 10
      [] s = "-2" -> 0 - 2 [] s = "720" -> 720 [] s = "2160" -> 2160
      [] s = "7" -> 7 [] s = "9" -> 9 [] s = "45" -> 45 [] s = "60" -> 60
      [] s = "120" -> 120 [] s = "121" -> 121 [] s = "2005" -> 2005
      [] s = "99999999999999999999" -> MaxInt
      [] OTHER -> 0

\* strconv.ParseFloat of a size in GB, in tenths of a GB.
ParseFloat(s) ==
    CASE s = "0.5" -> 5 [] s = "1" -> 10 [] s = "25" -> 250 [] s = "100" -> 1000
      [] OTHER -> 0

\* One comma-separated item of UserData.ExcludedQualities: a quality name,
\* written in upper case or not, with spaces around it or not.
Item(name, upper, pad) == [name |-> name, upper |-> upper, pad |-> pad]
Plain(name) == Item(name, FALSE, FALSE)
ToLower(item) == [item EXCEPT !.upper = FALSE]
TrimSpace(item) == [item EXCEPT !.pad = FALSE]
ListOf(names) == [ j \in DOMAIN names |-> Plain(names[j]) ]

AvoidQualities ==
    <<"cam", "camrip", "telesync", "tsrip", "hdcam", "tc", "ppvrip", "r5", "vhsscr">>

\* UserData: the fields excludeTorrents reads.  ExcludedQualities is the
\* sequence of its items, << >> the empty string.
UserData(minRes, maxRes, minSize, maxSize, minSeeders, excluded) ==
    [minRes |-> minRes, maxRes |-> maxRes, minSize |-> minSize, maxSize |-> maxSize,
     minSeeders |-> minSeeders, excluded |-> excluded, searchTimeout |-> "",
     sortMethod |-> ""]

NewUserDataWithDefaults ==
    [UserData("720", "2160", "0.5", "25", "10", ListOf(AvoidQualities))
        EXCEPT !.searchTimeout = "60", !.sortMethod = "quality"]

ApplyDefaults(u) ==
    LET d == NewUserDataWithDefaults
    IN [UserData(IF u.minRes = "" THEN d.minRes ELSE u.minRes,
                 IF u.maxRes = "" THEN d.maxRes ELSE u.maxRes,
                 IF u.minSize = "" THEN d.minSize ELSE u.minSize,
                 IF u.maxSize = "" THEN d.maxSize ELSE u.maxSize,
                 IF u.minSeeders = "" THEN d.minSeeders ELSE u.minSeeders,
                 IF u.excluded = << >> THEN d.excluded ELSE u.excluded)
           EXCEPT !.searchTimeout =
                      IF u.searchTimeout = "" THEN d.searchTimeout ELSE u.searchTimeout,
                  !.sortMethod = IF u.sortMethod = "" THEN d.sortMethod ELSE u.sortMethod]

\* Lines 883, 893-895 and 934: the minimum as the seeders check uses it.
MinSeedersOf_ZeroKept(s) == ToUint(Atoi(s))
MinSeedersOf(s) == ToUint(IF Atoi(s) = 0 THEN 1 ELSE Atoi(s))

\* Lines 902-910.
ExcludedQualitiesOf(excluded) ==
    IF excluded # << >>
    THEN [ j \in DOMAIN excluded |-> TrimSpace(ToLower(excluded[j])) ]
    ELSE ListOf(AvoidQualities)

\* Mutant: the 3D flag is not looked at.
QualityOK_Ignore3D(u, r) ==
    ~(\E j \in DOMAIN ExcludedQualitiesOf(u.excluded) :
          ExcludedQualitiesOf(u.excluded)[j] = Plain(r.quality))

\* excludeTorrents, line 912.  The parser writes Quality in lower case.
QualityOK(u, r) ==
    /\ ~(\E j \in DOMAIN ExcludedQualitiesOf(u.excluded) :
             ExcludedQualitiesOf(u.excluded)[j] = Plain(r.quality))
    /\ ~r.threeD

\* Lines 881-882, 887-892 and 915, in tenths of a GB.
SizeOK(u, r) ==
    LET minSize == IF ParseFloat(u.minSize) = 0 THEN 1 ELSE ParseFloat(u.minSize)
        maxSize == IF ParseFloat(u.maxSize) = 0 THEN 300 ELSE ParseFloat(u.maxSize)
    IN r.size >= minSize /\ r.size <= maxSize

\* Lines 918-924.
ResolutionOK(u, r) ==
    /\ ~(Atoi(u.minRes) > 0 /\ r.res > 0 /\ r.res < Atoi(u.minRes))
    /\ ~(Atoi(u.maxRes) > 0 /\ r.res > 0 /\ r.res > Atoi(u.maxRes))

\* Line 934.
SeedersOK(u, r) == r.seeders >= MinSeedersOf(u.minSeeders)

\* strings.TrimPrefix(s, "tt").
TrimPrefixTT(s) ==
    CASE s = "tt7" -> "7" [] s = "tt9" -> "9" [] s = "tt" -> "" [] OTHER -> s

\* CineMeta.GetMovieById: the MetaInfo made of the service's answer; the
\* error of the id's Atoi is dropped, so an id that is no number becomes 0.
GetMovieById(meta) ==
    [name |-> meta.name, imdbID |-> ToUint(Atoi(TrimPrefixTT(meta.imdb_id))),
     fromYear |-> Atoi(meta.year), toYear |-> Atoi(meta.year)]

MaxTitleDistance == 5

\* Line 927.
ImdbOK(r) == r.imdb = 0 \/ r.imdb = r.meta.imdbID

\* Line 928.
YearOK(r) == r.year = 0 \/ (r.meta.fromYear <= r.year /\ r.meta.toYear >= r.year)

\* Lines 929-930.
SeasonOK(r) ==
    r.ctype # "series" \/ r.fromSeason = 0
        \/ (r.fromSeason <= r.season /\ r.toSeason >= r.season)
EpisodeOK(r) == r.ctype # "series" \/ r.titleEpisode = 0 \/ r.titleEpisode = r.episode

\* excludeTorrents; r.titleDiff is what checkTitleSimilarity returns for the
\* record's title, looked at only when the candidate has no IMDB id.
TorrentOK(u, r) ==
    LET ok == /\ QualityOK(u, r) /\ SizeOK(u, r) /\ ResolutionOK(u, r)
              /\ ImdbOK(r) /\ YearOK(r) /\ SeasonOK(r) /\ EpisodeOK(r)
              /\ SeedersOK(u, r)
    IN IF ok /\ r.imdb = 0 THEN r.titleDiff < MaxTitleDistance ELSE ok

\* ---- excludeTorrents on one record ----
\* What a caller can send for minSeeders and excludedQualities.
MinSeedersChoices == {"", "0", "1", "3", "-2", "abc", "99999999999999999999"}
ExcludedChoices ==
    { << >>, << Plain("dvd") >>, << Item("cam", TRUE, FALSE), Item("tc", FALSE, TRUE) >> }
Configs ==
    { UserData(a, "", b, "", s, x) :
        a \in {"", "720"}, b \in {"", "1"}, s \in MinSeedersChoices, x \in ExcludedChoices }
\* What the metadata service answers: a name, a year, an IMDB id.
Answer(id) == [name |-> "n", year |-> "2005", imdb_id |-> id]

\* A candidate of a movie request that every check lets through.
GoodCandidate ==
    [seeders |-> 10, quality |-> "bluray", threeD |-> FALSE, res |-> 1080, size |-> 100,
     imdb |-> 7, meta |-> GetMovieById(Answer("tt7")), year |-> 0, ctype |-> "movie",
     season |-> 0, episode |-> 0, fromSeason |-> 0, toSeason |-> 0, titleEpisode |-> 0,
     titleDiff |-> 0]

Candidates3 ==
    { [GoodCandidate EXCEPT !.seeders = sd, !.quality = q, !.threeD = d, !.res = res,
                            !.size = sz, !.imdb = id] :
        sd \in {0, 1, 3, 10, UintModulus - 1}, q \in {"cam", "tc", "bluray", ""},
        d \in BOOLEAN, res \in {0, 480, 1080}, sz \in {0, 5, 100}, id \in {7, 9} }

ExcludeInit ==
    /\ stages = << >>
    /\ errOn = {}
    /\ errPos = 0
    /\ srcBatch = << >>
    /\ InitRun
    /\ world \in { [u |-> u, r |-> r] : u \in Configs, r \in Candidates3 }
    /\ recs = {}
    /\ cache = EmptyCache
    /\ foundOf = [ r \in Runs |-> {} ]
    /\ errSlot = ""
    /\ cancelled = ""
    /\ last = NoCall
    /\ filterLog = [ r \in Runs |-> << >> ]
    /\ Unranked

\* HandleGetStreams, lines 250-268 (the base route takes the defaults, the
\* userData route parses and fills in), then the filter on one record.
ExcludeCall ==
    /\ last = NoCall
    /\ \E baseRoute \in BOOLEAN :
          LET u == IF baseRoute THEN NewUserDataWithDefaults ELSE ApplyDefaults(world.u)
          IN last' = [fn |-> "excludeTorrents", base |-> baseRoute, u |-> u, r |-> world.r,
                      seedersOK |-> SeedersOK(u, world.r),
                      qualityOK |-> QualityOK(u, world.r),
                      imdbOK |-> ImdbOK(world.r),
                      ok |-> TorrentOK(u, world.r)]
    /\ UNCHANGED <<world, recs, cache, foundOf, errSlot, cancelled, filterLog, pipeVars, rankVars>>

ExcludeNext == ExcludeCall

ExcludeSpec == ExcludeInit /\ [][ExcludeNext]_vars

\* ---- the content checks of excludeTorrents ----
\* Candidates that differ in what the content checks look at.
ImdbAnswers == {"tt7", "tt9", "", "n/a"}
ContentCandidates ==
    { [GoodCandidate EXCEPT !.imdb = id, !.meta = GetMovieById(Answer(a)), !.year = y,
                            !.ctype = ct, !.season = 2, !.episode = 3,
                            !.fromSeason = ts, !.toSeason = ts, !.titleEpisode = te,
                            !.titleDiff = diff] :
        id \in {0, 7, 9}, a \in ImdbAnswers, y \in {0, 1999, 2005},
        ct \in {"movie", "series"}, ts \in {0, 2, 3}, te \in {0, 3, 4},
        diff \in {0, MaxTitleDistance} }

ContentInit ==
    /\ stages = << >>
    /\ errOn = {}
    /\ errPos = 0
    /\ srcBatch = << >>
    /\ InitRun
    /\ world \in { [u |-> UserData("", "", "", "", "", << >>), r |-> r] :
                      r \in ContentCandidates }
    /\ recs = {}
    /\ cache = EmptyCache
    /\ foundOf = [ r \in Runs |-> {} ]
    /\ errSlot = ""
    /\ cancelled = ""
    /\ last = NoCall
    /\ filterLog = [ r \in Runs |-> << >> ]
    /\ Unranked

ContentSpec == ContentInit /\ [][ExcludeNext]_vars

\* ---- the deadline of a request ----
\* strconv.Atoi returns an error: the string is no number, or out of range.
AtoiFails(s) ==
    s \notin {"0", "1", "3", "7", "9", "10", "45", "60", "120", "121", "720", "2005",
              "2160", "-2"}

\* HandleGetStreams, lines 286-289: the seconds handed to the sink.
TimeoutSeconds(u) ==
    LET timeoutSeconds == Atoi(u.searchTimeout)
    IN IF AtoiFails(u.searchTimeout) \/ timeoutSeconds < 10 \/ timeoutSeconds > 120
       THEN 45
       ELSE timeoutSeconds

TimeoutChoices ==
    {"", "0", "1", "9", "10", "45", "60", "120", "121", "-2", "abc", "99999999999999999999"}

TimeoutInit ==
    /\ stages = << >>
    /\ errOn = {}
    /\ errPos = 0
    /\ srcBatch = << >>
    /\ InitRun
    /\ \E t \in TimeoutChoices, method \in {"", "quality", "diversity"},
          sd \in MinSeedersChoices :
          world = [u |-> [UserData("", "", "", "", sd, << >>)
                             EXCEPT !.searchTimeout = t, !.sortMethod = method]]
    /\ recs = {}
    /\ cache = EmptyCache
    /\ foundOf = [ r \in Runs |-> {} ]
    /\ errSlot = ""
    /\ cancelled = ""
    /\ last = NoCall
    /\ filterLog = [ r \in Runs |-> << >> ]
    /\ Unranked

\* HandleGetStreams up to the call of sinkResultsWithTimeout.
TimeoutCall ==
    /\ last = NoCall
    /\ \E baseRoute \in BOOLEAN :
          LET u == IF baseRoute THEN NewUserDataWithDefaults ELSE ApplyDefaults(world.u)
          IN last' = [fn |-> "sinkResultsWithTimeout", base |-> baseRoute, u |-> u,
                      seconds |-> TimeoutSeconds(u)]
    /\ UNCHANGED <<world, recs, cache, foundOf, errSlot, cancelled, filterLog, pipeVars, rankVars>>

TimeoutNext == TimeoutCall

TimeoutSpec == TimeoutInit /\ [][TimeoutNext]_vars

\* ---- excludeTorrents' size check, then locateMediaFile, on one record ----
\* The sizes of a candidate and of the files listed for it, the sizes a
\* caller can ask for, in units of 100 MB.
TorrentSizes == {0, 1, 20, 299, 300, 400}
SizeChoices == {"", "0.5", "25", "100", "abc"}
FileLists ==
    { << >>, << Fgood, Fmovie >>, << Fsmall >>, << Ftext >>,
      << File("f5", TRUE, TRUE, 299) >>, << File("f6", TRUE, TRUE, 300) >>,
      << File("f7", TRUE, TRUE, 400), Fgood >> }

LocateInit ==
    /\ stages = << >>
    /\ errOn = {}
    /\ errPos = 0
    /\ srcBatch = << >>
    /\ InitRun
    /\ \E lo \in SizeChoices, hi \in SizeChoices, sz \in TorrentSizes, fs \in FileLists,
          rd \in BOOLEAN, ct \in {"movie", "series"} :
          world = [u |-> UserData("", "", lo, hi, "", << >>), rd |-> rd, ctype |-> ct,
                   r |-> [StreamRecord(1, 1, "exclude",
                                       [Torrent(1, "a", "", "err", FALSE) EXCEPT !.size = sz])
                          EXCEPT !.files = IF rd THEN fs ELSE << >>]]
    /\ recs = {}
    /\ cache = EmptyCache
    /\ foundOf = [ r \in Runs |-> {} ]
    /\ errSlot = ""
    /\ cancelled = ""
    /\ last = NoCall
    /\ filterLog = [ r \in Runs |-> << >> ]
    /\ Unranked

\* The size check of the exclusion filter, under the configuration the
\* handler passes on.
SizeCheck ==
    /\ last = NoCall
    /\ \E baseRoute \in BOOLEAN :
          LET u == IF baseRoute THEN NewUserDataWithDefaults ELSE ApplyDefaults(world.u)
          IN last' = [fn |-> "excludeTorrents", base |-> baseRoute, u |-> u,
                      sizeOK |-> SizeOK(u, [size |-> world.r.tor.size])]
    /\ UNCHANGED <<world, recs, cache, foundOf, errSlot, cancelled, filterLog, pipeVars, rankVars>>

\* locateMediaFile on a record the filter let through.
LocateCall ==
    /\ last.fn = "excludeTorrents"
    /\ last.sizeOK
    /\ last' = [fn |-> "locateMediaFile", base |-> last.base, u |-> last.u,
                outs |-> LocateMediaFile(world.rd, world.ctype, world.r).outs]
    /\ UNCHANGED <<world, recs, cache, foundOf, errSlot, cancelled, filterLog, pipeVars, rankVars>>

LocateNext == SizeCheck \/ LocateCall

LocateSpec == LocateInit /\ [][LocateNext]_vars

\* --------------------------------------------------- ranking (internal/addon)
\* HandleGetStreams after the sink returned: the records are ordered by the
\* user's sort method and the first maxStreamsResult become the response.

MaxStreamsResult == 5
\* slices.SortFunc sorts up to this many elements by insertion.
MaxInsertion == 12
ResolutionOrder == <<720, 1080, 2160, 480, 360>>

Swap(s, i, j) == [s EXCEPT ![i] = s[j], ![j] = s[i]]

\* The inner loop of the insertion sort: while cmp(data[j], data[j-1]) < 0,
\* that is while the record scores more than the one before it, swap them.
RECURSIVE SiftLeft(_, _)
SiftLeft_Never(s, j) == s
SiftLeft(s, j) ==
    IF j > 1 /\ CalculateQualityScore(s[j]) > CalculateQualityScore(s[j - 1])
    THEN SiftLeft(Swap(s, j, j - 1), j - 1)
    ELSE s

RECURSIVE InsertionSortFrom(_, _)
InsertionSortFrom(s, i) ==
    IF i > Len(s) THEN s ELSE InsertionSortFrom(SiftLeft(s, i), i + 1)

InsertionSort(s) == InsertionSortFrom(s, 2)

RemoveAt(s, i) == SubSeq(s, 1, i - 1) \o SubSeq(s, i + 1, Len(s))

\* Every order of a sorted list in which the scores still descend.
RECURSIVE TieOrders(_)
TieOrders(s) ==
    IF s = << >> THEN { << >> }
    ELSE LET top == CalculateQualityScore(s[1])
             firsts == { i \in DOMAIN s : CalculateQualityScore(s[i]) = top }
         IN UNION { { <<s[i]>> \o t : t \in TieOrders(RemoveAt(s, i)) } : i \in firsts }

\* slices.SortFunc with the descending-score comparison: the lists it can
\* leave.  The sort is not guaranteed to be stable; up to MaxInsertion elements
\* it is an insertion sort, beyond that a pattern-defeating quicksort that
\* moves equal elements past each other.
SortFunc(s) ==
    IF Len(s) <= MaxInsertion THEN { InsertionSort(s) }
    ELSE TieOrders(InsertionSort(s))

SortByQualityScore(rs) == SortFunc(rs)

Take_All(g, m) == g
Take(g, m) == IF Len(g) > m THEN SubSeq(g, 1, m) ELSE g

\* groups[resolution], in order of appending.
GroupOf(rs, res) ==
    LET T(r) == r.res = res IN SelectSeq(rs, T)

\* The group after its sort and its cut to maxPerGroup.
TopOf(rs, res, m) == { Take(g, m) : g \in SortFunc(GroupOf(rs, res)) }

\* The groups of resolutionOrder[k..], appended in that order.
RECURSIVE AppendOrdered(_, _, _)
AppendOrdered(rs, m, k) ==
    IF k > Len(ResolutionOrder) THEN { << >> }
    ELSE { g \o rest : g \in TopOf(rs, ResolutionOrder[k], m),
                       rest \in AppendOrdered(rs, m, k + 1) }

\* The remaining groups, appended in the order the map iteration yields them.
RECURSIVE AppendRemaining(_, _, _)
AppendRemaining(rs, m, R) ==
    IF R = {} THEN { << >> }
    ELSE UNION { { g \o rest : g \in TopOf(rs, res, m),
                               rest \in AppendRemaining(rs, m, R \ {res}) }
                 : res \in R }

\* The lists groupByResolution can return.
GroupByResolution(rs, m) ==
    LET others == { rs[i].res : i \in DOMAIN rs } \ Range1(ResolutionOrder)
    IN { a \o b : a \in AppendOrdered(rs, m, 1),
                  b \in AppendRemaining(rs, m, others) }

\* The StreamItem of a record: a debrid URL for a cached record, the info
\* hash for native streaming otherwise.
StreamItem(r) ==
    IF r.cached
    THEN [url |-> <<"download", r.id>>, name |-> <<r.res, TRUE>>, seeders |-> r.seeders]
    ELSE [infoHash |-> r.id, name |-> <<r.res, FALSE>>, seeders |-> r.seeders]

\* The record a stream item was made of.
RecordOf(item) ==
    IF "url" \in DOMAIN item THEN item.url[2] ELSE item.infoHash

\* The response loop: append the item of each record, stop at maxStreamsResult.
RECURSIVE ResponseLoop(_, _)
ResponseLoop_NoBreak(rs, results) ==
    results \o [ i \in DOMAIN rs |-> StreamItem(rs[i]) ]
ResponseLoop(rs, results) ==
    IF rs = << >> THEN results
    ELSE LET appended == Append(results, StreamItem(Head(rs)))
         IN IF Len(appended) = MaxStreamsResult THEN appended
            ELSE ResponseLoop(Tail(rs), appended)

\* The sort method the handler applies: an empty one means "quality".
SortMethodOf(u) == IF u.sortMethod = "" THEN "quality" ELSE u.sortMethod

\* The lists the handler can rank the sink's records into.
Rankings(rs, u) ==
    IF SortMethodOf(u) = "quality" THEN SortByQualityScore(rs)
    ELSE GroupByResolution(rs, 3)

\* The sort of the sink's records, once every survivor reached the sink.
RankRun(run) ==
    /\ ranked[run] = << >>
    /\ Range1(arrived[run]) = world.survivors
    /\ \E list \in Rankings(arrived[run], world) :
           ranked' = [ranked EXCEPT ![run] = <<list>>]
    /\ UNCHANGED <<world, recs, cache, foundOf, errSlot, cancelled, last, filterLog,
                   arrived, streams, pipeVars>>

\* The response is built from the ranked records.
DeliverRun(run) ==
    /\ ranked[run] # << >>
    /\ streams[run] = << >>
    /\ streams' = [streams EXCEPT ![run] = <<ResponseLoop(ranked[run][1], << >>)>>]
    /\ UNCHANGED <<world, recs, cache, foundOf, errSlot, cancelled, last, filterLog,
                   arrived, ranked, pipeVars>>

\* One call of groupByResolution with a maxPerGroup of its own.
MaxPerGroups == {1, 2, 3}

GroupCall ==
    /\ last = NoCall
    /\ \E m \in MaxPerGroups : \E out \in GroupByResolution(arrived[1], m) :
           last' = [fn |-> "groupByResolution", input |-> arrived[1], m |-> m,
                    out |-> out]
    /\ UNCHANGED <<world, recs, cache, foundOf, errSlot, cancelled, filterLog,
                   pipeVars, rankVars>>

\* The kinds of record the ranking is tried on: resolution, seeders, and
\* whether the debrid service has the files.
Kind(res, seeders, cached) == [res |-> res, seeders |-> seeders, cached |-> cached]
ShortKinds == { Kind(720, 10, FALSE), Kind(720, 20, FALSE), Kind(1080, 10, FALSE),
                Kind(2160, 5, TRUE), Kind(576, 10, FALSE), Kind(0, 10, FALSE) }
LongKinds == { Kind(720, 10, FALSE), Kind(720, 20, FALSE), Kind(1080, 10, FALSE),
               Kind(2160, 5, TRUE) }
MaxShort == 4
MaxLong == 6

\* The records of a list of kinds; the position is the record's identity.
RecordsOf(ks) ==
    [ i \in DOMAIN ks |-> Scored(i, ks[i].res, "bluray", 20, ks[i].seeders, ks[i].cached) ]

\* Lists longer than MaxInsertion: thirteen 1080p records, two of them with
\* the same seeders.
Descending12 == [ i \in 1..12 |-> Kind(1080, 13 - i, FALSE) ]
Ascending12 == [ i \in 1..12 |-> Kind(1080, i, FALSE) ]
SeederTies == 1..12
LongLists ==
    { <<Kind(1080, t, FALSE)>> \o rest : t \in SeederTies, rest \in {Descending12, Ascending12} }
    \cup { <<Kind(1080, 1, FALSE), Kind(1080, 1, FALSE)>> \o SubSeq(Descending12, 1, 11) }

RankInputs ==
    { RecordsOf(ks) :
        ks \in UNION { [1..n -> ShortKinds] : n \in 0..MaxShort }
               \cup UNION { [1..n -> LongKinds] : n \in (MaxShort + 1)..MaxLong }
               \cup LongLists }

SortMethods == {"", "quality", "diversity"}

RankInit ==
    /\ stages = << >>
    /\ errOn = {}
    /\ errPos = 0
    /\ srcBatch = << >>
    /\ InitRun
    /\ \E rs \in RankInputs, method \in SortMethods :
          /\ world = [survivors |-> Range1(rs), sortMethod |-> method]
          /\ arrived = [ r \in Runs |-> IF r = 1 THEN rs ELSE << >> ]
    /\ ranked = [ r \in Runs |-> << >> ]
    /\ streams = [ r \in Runs |-> << >> ]
    /\ recs = {}
    /\ cache = EmptyCache
    /\ foundOf = [ r \in Runs |-> {} ]
    /\ errSlot = ""
    /\ cancelled = ""
    /\ last = NoCall
    /\ filterLog = [ r \in Runs |-> << >> ]

RankNext ==
    \/ RankRun(1)
    \/ DeliverRun(1)
    \/ GroupCall

RankSpec == RankInit /\ [][RankNext]_vars

\* Two requests with the same provider and cache responses, so the same
\* surviving records: the sink of each appends them in the order the stage
\* workers deliver them.
MaxSurvivors == 3
OrderKinds == { Kind(720, 10, FALSE), Kind(1080, 10, FALSE), Kind(1080, 20, FALSE) }

OrderInit ==
    /\ stages = << >>
    /\ errOn = {}
    /\ errPos = 0
    /\ srcBatch = << >>
    /\ InitRun
    /\ \E n \in 1..MaxSurvivors : \E ks \in [1..n -> OrderKinds] :
       \E method \in SortMethods :
           world = [survivors |-> Range1(RecordsOf(ks)), sortMethod |-> method]
    /\ Unranked
    /\ recs = {}
    /\ cache = EmptyCache
    /\ foundOf = [ r \in Runs |-> {} ]
    /\ errSlot = ""
    /\ cancelled = ""
    /\ last = NoCall
    /\ filterLog = [ r \in Runs |-> << >> ]

\* The sink callback of a request appends a record that reached it.
Arrive(run) ==
    /\ ranked[run] = << >>
    /\ \E x \in world.survivors \ Range1(arrived[run]) :
           arrived' = [arrived EXCEPT ![run] = Append(@, x)]
    /\ UNCHANGED <<world, recs, cache, foundOf, errSlot, cancelled, last, filterLog,
                   ranked, streams, pipeVars>>

OrderNext ==
    \E run \in Runs :
        \/ Arrive(run)
        \/ RankRun(run)
        \/ DeliverRun(run)

OrderSpec == OrderInit /\ [][OrderNext]_vars

\* ------------------------------------------- one request (internal/addon)
\* HandleGetStreams from the validation of the configuration to the
\* response: the seed, the metadata, the fan-out to the indexers, the rest of
\* the pipeline in one step, and the answer.  world holds the addon's
\* environment, the caller's configuration and the route; last holds the
\* step that ran last; errSlot and cancelled are the pipe's.

\* The addon's environment: main adds a Prowlarr client only when both the
\* URL and the key are set.
Environments ==
    { [prowlarrURL |-> u, prowlarrAPIKey |-> u, realDebridAPIKey |-> k] :
        u \in {"", "p"}, k \in {"", "k"} }

\* The service settings of a caller's userData.
ServiceSettings ==
    { [prowlarrURL |-> u, prowlarrAPIKey |-> a, rdAPIKey |-> k] :
        u \in {"", "p"}, a \in {"", "p"}, k \in {"", "k"} }

NoSettings == [prowlarrURL |-> "", prowlarrAPIKey |-> "", rdAPIKey |-> ""]

\* The final configuration: the caller's value, the environment's for an
\* empty one.
FinalConfig(env, ui) ==
    [prowlarrURL |-> IF ui.prowlarrURL = "" THEN env.prowlarrURL ELSE ui.prowlarrURL,
     prowlarrAPIKey |-> IF ui.prowlarrAPIKey = "" THEN env.prowlarrAPIKey
                        ELSE ui.prowlarrAPIKey,
     rdAPIKey |-> IF ui.rdAPIKey = "" THEN env.realDebridAPIKey ELSE ui.rdAPIKey]

\* parseUserData, its validation: TRUE when it returns no error.
ParseUserDataOK(env, ui) ==
    LET final == FinalConfig(env, ui)
        half == \/ (ui.prowlarrURL # "" /\ ui.prowlarrAPIKey = "")
                \/ (ui.prowlarrURL = "" /\ ui.prowlarrAPIKey # "")
        filled == \/ (ui.prowlarrURL # "" /\ env.prowlarrAPIKey # "")
                  \/ (ui.prowlarrAPIKey # "" /\ env.prowlarrURL # "")
        prowlarrConfigured == final.prowlarrURL # "" /\ final.prowlarrAPIKey # ""
        realDebridConfigured == final.rdAPIKey # ""
    IN /\ half => filled
       /\ prowlarrConfigured \/ realDebridConfigured

\* HandleGetStreams, lines 247-269: TRUE when the request is not answered 400.
ConfigAccepted(env, base, ui) ==
    IF base THEN env.prowlarrURL # "" \/ env.realDebridAPIKey # ""
    ELSE ParseUserDataOK(env, ui)

\* sourceFromContextWithUserData: the seed record, or an error.  tokens is
\* the number of parts of the id.
SourceFromContext(env, ui, ctype, tokens) ==
    LET final == FinalConfig(env, ui)
    IN IF ctype = "series" /\ tokens # 3
       THEN [err |-> TRUE, seed |-> << >>]
       ELSE [err |-> FALSE,
             seed |-> << [ctype |-> ctype,
                          rdClient |-> final.rdAPIKey # "",
                          prowlarr |-> final.prowlarrURL # "" /\ final.prowlarrAPIKey # ""] >>]

\* fetchMetaInfo: an error when the metadata service fails or the content
\* type is neither movie nor series.
FetchMetaInfoFails(r, serviceFails) ==
    IF r.ctype \in {"movie", "series"} THEN serviceFails ELSE TRUE

\* fanOutToAllIndexers calls a method of r.Prowlarr that reads the client's
\* fields: with no client on the record the call panics.
FanOutPanics(r) == ~r.prowlarr

HandlerInit ==
    /\ stages = << >>
    /\ errOn = {}
    /\ errPos = 0
    /\ srcBatch = << >>
    /\ InitRun
    /\ \E env \in Environments, ui \in ServiceSettings, base \in BOOLEAN,
          ctype \in {"movie", "series", "tv"}, tokens \in {1, 3} :
          world = [env |-> env, ui |-> IF base THEN NoSettings ELSE ui, base |-> base,
                   ctype |-> ctype, tokens |-> tokens]
    /\ recs = {}
    /\ cache = EmptyCache
    /\ foundOf = [ r \in Runs |-> {} ]
    /\ errSlot = ""
    /\ cancelled = ""
    /\ last = NoCall
    /\ filterLog = [ r \in Runs |-> << >> ]
    /\ Unranked

handlerIdle == <<world, recs, cache, foundOf, filterLog, pipeVars, rankVars>>

\* The configuration is validated; a refused one is answered 400.
Validate ==
    /\ last = NoCall
    /\ last' = IF ConfigAccepted(world.env, world.base, world.ui)
               THEN [fn |-> "validate"]
               ELSE [fn |-> "HandleGetStreams", status |-> 400, error |-> TRUE,
                     streams |-> 0]
    /\ UNCHANGED <<errSlot, cancelled>>
    /\ UNCHANGED handlerIdle

\* The source runs; its error is reported to the pipe.
SeedCall ==
    /\ last.fn = "validate"
    /\ LET res == SourceFromContext(world.env, world.ui, world.ctype, world.tokens)
       IN /\ last' = [fn |-> "source", err |-> res.err, seed |-> res.seed]
          /\ IF res.err THEN Report("source") ELSE UNCHANGED <<errSlot, cancelled>>
    /\ UNCHANGED handlerIdle

\* p.Map(add.fetchMetaInfo)
FetchMetaInfoCall ==
    /\ last.fn = "source" /\ ~last.err
    /\ cancelled = ""
    /\ \E serviceFails \in BOOLEAN :
          LET fails == FetchMetaInfoFails(last.seed[1], serviceFails)
          IN /\ last' = [fn |-> "fetchMetaInfo", err |-> fails, seed |-> last.seed]
             /\ IF fails THEN Report("meta") ELSE UNCHANGED <<errSlot, cancelled>>
    /\ UNCHANGED handlerIdle

\* p.FanOut(add.fanOutToAllIndexers)
FanOutCall ==
    /\ last.fn = "fetchMetaInfo" /\ ~last.err
    /\ cancelled = ""
    /\ IF FanOutPanics(last.seed[1])
       THEN /\ last' = [fn |-> "fanOutToAllIndexers", panic |-> TRUE, err |-> FALSE,
                        seed |-> last.seed]
            /\ UNCHANGED <<errSlot, cancelled>>
       ELSE \E failed \in BOOLEAN :
               /\ last' = [fn |-> "fanOutToAllIndexers", panic |-> FALSE, err |-> failed,
                           seed |-> last.seed]
               /\ IF failed THEN Report("indexers") ELSE UNCHANGED <<errSlot, cancelled>>
    /\ UNCHANGED handlerIdle

\* The stages after the fan-out: a failed search is silent, a failed lookup
\* leaves the record without files, records are dropped without an error;
\* the sink is closed, or the deadline passes first.
RestOfPipeline ==
    /\ last.fn = "fanOutToAllIndexers" /\ ~last.panic /\ ~last.err
    /\ cancelled = ""
    /\ \E searchFails \in BOOLEAN, lookupFails \in BOOLEAN, sunk \in 0..1 :
          last' = [fn |-> "pipeline", searchFails |-> searchFails,
                   lookupFails |-> lookupFails,
                   sunk |-> IF searchFails THEN 0 ELSE sunk]
    /\ cancelled' \in {"done", "deadline"}
    /\ UNCHANGED errSlot
    /\ UNCHANGED handlerIdle

\* The deadline passes while a stage before the fan-out is still at work.
EarlyDeadline ==
    /\ last.fn \in {"validate", "source", "fetchMetaInfo"}
    /\ cancelled = ""
    /\ cancelled' = "deadline"
    /\ last' = [fn |-> "pipeline", searchFails |-> FALSE, lookupFails |-> FALSE, sunk |-> 0]
    /\ UNCHANGED errSlot
    /\ UNCHANGED handlerIdle

\* sinkResultsWithTimeout logs the error of SinkWithTimeout and returns the
\* records; HandleGetStreams answers with the streams made of them.
Respond ==
    /\ cancelled # ""
    /\ last.fn \in {"source", "fetchMetaInfo", "fanOutToAllIndexers", "pipeline"}
    /\ last' = [fn |-> "HandleGetStreams", status |-> 200, error |-> FALSE,
                streams |-> IF last.fn = "pipeline" THEN last.sunk ELSE 0]
    /\ UNCHANGED <<errSlot, cancelled>>
    /\ UNCHANGED handlerIdle

HandlerNext ==
    \/ Validate
    \/ SeedCall
    \/ FetchMetaInfoCall
    \/ FanOutCall
    \/ RestOfPipeline
    \/ EarlyDeadline
    \/ Respond

HandlerSpec == HandlerInit /\ [][HandlerNext]_vars

\* ------------------------------------------------------------- scheduling
\* Runs of one incremental-emit stage or one batch stage in which no call
\* fails or every record makes the failing call fail, so that two workers
\* can report at the same time.
LiveInit ==
    /\ Init
    /\ stages \in {<< "channel" >>, << "batch" >>}
    /\ errOn \in {{}, 1..SourceLen}

\* A step of a goroutine of the run: any step but the expiry of the timer,
\* which is the clock's and not the scheduler's.
GoroutineStep == Next /\ UNCHANGED timerFired

\* The Go scheduler lets a goroutine that can take a step take one in the
\* end; a run is finite, so it is enough that the run goes on while any
\* goroutine can step.  The deadline may or may not expire.
FairSpec == LiveInit /\ [][Next]_vars /\ WF_vars(GoroutineStep)

\* ------------------------------------------- one call of searchForTorrents
\* The call step by step, against a cancellation signal that may be raised
\* at any moment.  world holds the content type, the provider's declared
\* limit and what its queries answer; last holds the call's position.
MaxAnswers == 2

\* What a query answers: an error, or a list of so many torrents.
Answers == [err : BOOLEAN, n : 0..MaxAnswers]

SearchInit ==
    /\ stages = << >>
    /\ errOn = {}
    /\ errPos = 0
    /\ srcBatch = << >>
    /\ InitRun
    /\ \E ctype \in {"movie", "series", "tv"}, prim \in Answers, seas \in Answers,
          limit \in 0..MaxAnswers :
          world = [ctype |-> ctype, prim |-> prim, seas |-> seas, limit |-> limit]
    /\ recs = {}
    /\ cache = EmptyCache
    /\ foundOf = [ r \in Runs |-> {} ]
    /\ errSlot = ""
    /\ cancelled = ""
    /\ last = NoCall
    /\ filterLog = [ r \in Runs |-> << >> ]
    /\ Unranked

searchIdle == <<world, recs, cache, foundOf, errSlot, filterLog, pipeVars, rankVars>>

\* The torrents of an answer: none when the query failed.
Listed(answer) == IF answer.err THEN 0 ELSE answer.n

\* Some goroutine raises the cancellation signal.
RaiseStop ==
    /\ cancelled = ""
    /\ cancelled' = "stop"
    /\ UNCHANGED last
    /\ UNCHANGED searchIdle

\* The switch on the content type and the initial query.
InitialQuery ==
    /\ last = NoCall
    /\ last' = [fn |-> "searchForTorrents", phase |-> "initial", i |-> 1,
                n |-> Listed(world.prim), sent |-> << >>, season |-> FALSE,
                check |-> "none",
                at |-> IF world.ctype \in {"movie", "series"} /\ ~world.prim.err
                       THEN "range" ELSE "returned"]
    /\ UNCHANGED cancelled
    /\ UNCHANGED searchIdle

\* sendAllRecords, the loop header.
RangeStep ==
    /\ last.fn = "searchForTorrents" /\ last.at = "range"
    /\ last' = [last EXCEPT !.at = IF last.i <= last.n THEN "send_outer" ELSE "after"]
    /\ UNCHANGED cancelled
    /\ UNCHANGED searchIdle

\* SendRecords of one record, the outer select.
SendOuterStep ==
    /\ last.fn = "searchForTorrents" /\ last.at = "send_outer"
    /\ last' = [last EXCEPT !.at = IF cancelled # "" THEN "is_stopped" ELSE "send_inner"]
    /\ UNCHANGED cancelled
    /\ UNCHANGED searchIdle

\* SendRecords of one record, the inner select: the send, or the signal when
\* it is raised.
SendInnerStep ==
    /\ last.fn = "searchForTorrents" /\ last.at = "send_inner"
    /\ \/ last' = [last EXCEPT !.at = "is_stopped",
                               !.sent = Append(@, <<last.phase, last.i>>)]
       \/ /\ cancelled # ""
          /\ last' = [last EXCEPT !.at = "is_stopped"]
    /\ UNCHANGED cancelled
    /\ UNCHANGED searchIdle

\* sendAllRecords: if isStopped() { return }
IsStoppedStep ==
    /\ last.fn = "searchForTorrents" /\ last.at = "is_stopped"
    /\ last' = IF cancelled # "" THEN [last EXCEPT !.at = "after"]
               ELSE [last EXCEPT !.at = "range", !.i = @ + 1]
    /\ UNCHANGED cancelled
    /\ UNCHANGED searchIdle

\* Mutant: the follow-up is issued whenever the page came back full.
SeasonFollowUp_FullPage(ctype, isStopped, torrents, limitDefaults) ==
    ~isStopped /\ torrents = limitDefaults

\* The condition of the season query, for the content types that reach it.
SeasonFollowUp(ctype, isStopped, torrents, limitDefaults) ==
    /\ ctype = "series"
    /\ ~isStopped /\ torrents = limitDefaults /\ limitDefaults > 0

\* After sendAllRecords: the return, or for a series the test of line 503,
\* whose isStopped() is evaluated first, and the season query.
AfterSendAll ==
    /\ last.fn = "searchForTorrents" /\ last.at = "after"
    /\ LET tested == last.phase = "initial" /\ world.ctype = "series"
           seen == IF ~tested THEN last.check
                   ELSE IF cancelled # "" THEN "stopped" ELSE "clear"
       IN last' = IF last.phase = "initial"
                     /\ SeasonFollowUp(world.ctype, cancelled # "", last.n, world.limit)
                  THEN [last EXCEPT !.phase = "season", !.season = TRUE, !.i = 1,
                                    !.n = Listed(world.seas), !.at = "range",
                                    !.check = seen]
                  ELSE [last EXCEPT !.at = "returned", !.check = seen]
    /\ UNCHANGED cancelled
    /\ UNCHANGED searchIdle

SearchNext ==
    \/ RaiseStop
    \/ InitialQuery
    \/ RangeStep
    \/ SendOuterStep
    \/ SendInnerStep
    \/ IsStoppedStep
    \/ AfterSendAll

SearchSpec == SearchInit /\ [][SearchNext]_vars

\* ------------------------------------------------- the stages' worker pools
\* The nine stages HandleGetStreams builds, each with the pool its
\* constructor and options give it, and one stage's process at work on a
\* queue of records: the goroutines it starts and the calls in progress.
DefaultConcurrency == 5
DefaultChannelConcurrency == 10
DefaultWorkerSize == 2
DefaultBatchSize == 10
EnrichConcurrency == 10

\* Pipe.FanOut (and Map and Filter through it): the default, then every
\* option in turn.
FanOutStage(name, opts) ==
    [kind |-> "simple", name |-> name, batchSize |-> 1,
     concurrency |-> IF opts = << >> THEN DefaultConcurrency ELSE opts[Len(opts)]]

\* Pipe.Channel
ChannelStage(name) ==
    [kind |-> "channel", name |-> name, batchSize |-> 1,
     concurrency |-> DefaultChannelConcurrency]

\* Pipe.Batch with no option
BatchStageOf(name) ==
    [kind |-> "batch", name |-> name, batchSize |-> DefaultBatchSize,
     concurrency |-> DefaultWorkerSize]

\* HandleGetStreams, lines 274-283.
Pipeline ==
    << FanOutStage("fetchMetaInfo", << >>),
       FanOutStage("fanOutToAllIndexers", << >>),
       ChannelStage("searchForTorrents"),
       FanOutStage("parseTorrentTitle", << >>),
       FanOutStage("excludeTorrents", << >>),
       FanOutStage("enrichInfoHash", << EnrichConcurrency >>),
       FanOutStage("deduplicateTorrent", << >>),
       BatchStageOf("enrichWithCachedFiles"),
       FanOutStage("locateMediaFile", << >>) >>

\* Records waiting on the stage's input queue.
MaxPoolInputs == 12

PoolInit ==
    /\ stages = << >>
    /\ errOn = {}
    /\ errPos = 0
    /\ srcBatch = << >>
    /\ InitRun
    /\ \E k \in DOMAIN Pipeline : world = [stage |-> Pipeline[k]]
    /\ recs = {}
    /\ cache = EmptyCache
    /\ foundOf = [ r \in Runs |-> {} ]
    /\ errSlot = ""
    /\ cancelled = ""
    /\ last = [fn |-> "process", spawned |-> 0, pending |-> MaxPoolInputs,
               newBatch |-> 0,
               held |-> [ w \in 1..world.stage.concurrency |-> 0 ]]
    /\ filterLog = [ r \in Runs |-> << >> ]
    /\ Unranked

poolIdle == <<world, recs, cache, foundOf, errSlot, cancelled, filterLog, pipeVars, rankVars>>

\* process: for i := 0; i < s.concurrency; i++ { go func() ... }
PoolSpawn ==
    /\ last.spawned < world.stage.concurrency
    /\ last' = [last EXCEPT !.spawned = @ + 1]
    /\ UNCHANGED poolIdle

\* A worker of a generic or incremental-emit stage takes the next record and
\* calls the stage's function with it.
PoolTake ==
    /\ world.stage.kind \in {"simple", "channel"}
    /\ last.pending > 0
    /\ \E w \in 1..last.spawned :
          /\ last.held[w] = 0
          /\ last' = [last EXCEPT !.pending = @ - 1, !.held[w] = 1]
    /\ UNCHANGED poolIdle

\* The function returns; the worker goes back to its queue.
PoolReturn ==
    /\ \E w \in 1..last.spawned :
          /\ last.held[w] > 0
          /\ last' = [last EXCEPT !.held[w] = 0]
    /\ UNCHANGED poolIdle

\* Mutant: the group under construction is never taken to be full.
BatchFull_Never(group, batchSize) == FALSE

\* processNextBatch: len(newBatch) == s.batchSize
BatchFull(group, batchSize) == group = batchSize

\* batchRecords and processNextBatch: the accumulator, started after the
\* workers, takes a record into the group it is building.
PoolAppend ==
    /\ world.stage.kind = "batch"
    /\ last.spawned = world.stage.concurrency
    /\ last.pending > 0
    /\ ~BatchFull(last.newBatch, world.stage.batchSize)
    /\ last' = [last EXCEPT !.pending = @ - 1, !.newBatch = @ + 1]
    /\ UNCHANGED poolIdle

\* processNextBatch: s.batchCh <- newBatch, received by a worker that calls
\* the stage's function with the group.  The group is handed over when it is
\* full, when the input has ended, or when the input has nothing ready.
PoolHandOff ==
    /\ world.stage.kind = "batch"
    /\ last.newBatch > 0
    /\ \E w \in 1..last.spawned :
          /\ last.held[w] = 0
          /\ last' = [last EXCEPT !.newBatch = 0, !.held[w] = last.newBatch]
    /\ UNCHANGED poolIdle

PoolNext ==
    \/ PoolSpawn
    \/ PoolTake
    \/ PoolReturn
    \/ PoolAppend
    \/ PoolHandOff

PoolSpec == PoolInit /\ [][PoolNext]_vars

\* ---------------------------------------------------- one call of SendRecords
\* SendRecords(records, outCh, stopped) on a list of at most MaxSendLen
\* records, the signal being raised at any moment; the receiver takes a
\* record whenever the send is chosen.  last.began is the state of the signal
\* when the current iteration began.
MaxSendLen == 3

SendLists == UNION { [1..n -> {"a", "b"}] : n \in 0..MaxSendLen }

SendInit ==
    /\ stages = << >>
    /\ errOn = {}
    /\ errPos = 0
    /\ srcBatch = << >>
    /\ InitRun
    /\ \E l \in SendLists : world = [list |-> l]
    /\ recs = {}
    /\ cache = EmptyCache
    /\ foundOf = [ r \in Runs |-> {} ]
    /\ errSlot = ""
    /\ cancelled = ""
    /\ last = [fn |-> "SendRecords", at |-> "range", i |-> 1, sent |-> << >>,
               began |-> FALSE, lateStart |-> FALSE]
    /\ filterLog = [ r \in Runs |-> << >> ]
    /\ Unranked

\* for _, record := range records
RangeRecords ==
    /\ last.fn = "SendRecords" /\ last.at = "range"
    /\ last' = IF last.i <= Len(world.list)
               THEN [last EXCEPT !.at = "outer", !.began = (cancelled # "")]
               ELSE [last EXCEPT !.at = "returned"]
    /\ UNCHANGED cancelled
    /\ UNCHANGED searchIdle

\* Mutant: the iteration goes to the send without testing the signal.
OuterSelect_NoTest(isStopped) == "inner"

\* select { case <-stopped: return; default: ... }
OuterSelect(isStopped) == IF isStopped THEN "returned" ELSE "inner"

OuterSelectStep ==
    /\ last.fn = "SendRecords" /\ last.at = "outer"
    /\ last' = [last EXCEPT !.at = OuterSelect(cancelled # "")]
    /\ UNCHANGED cancelled
    /\ UNCHANGED searchIdle

\* select { case <-stopped: return; case outCh <- record: }: either case
\* when both are ready.
InnerSelectStep ==
    /\ last.fn = "SendRecords" /\ last.at = "inner"
    /\ \/ last' = [last EXCEPT !.at = "range", !.i = @ + 1,
                               !.sent = Append(@, world.list[last.i]),
                               !.lateStart = @ \/ last.began]
       \/ /\ cancelled # ""
          /\ last' = [last EXCEPT !.at = "returned"]
    /\ UNCHANGED cancelled
    /\ UNCHANGED searchIdle

SendNext ==
    \/ RaiseStop
    \/ RangeRecords
    \/ OuterSelectStep
    \/ InnerSelectStep

SendSpec == SendInit /\ [][SendNext]_vars

\* ------------------------------------------------------------- properties
Returned == pc[Main] \in {"returned", "done"}
Range(s) == { s[i] : i \in DOMAIN s }
BagOfSeq(s) == [ x \in Range(s) |-> Cardinality({ i \in DOMAIN s : s[i] = x }) ]

\* C1: the stopped signal is closed at most once in every interleaving of
\* concurrent Stop calls; a second close (a panic) is never reached.
C1_StoppedClosedOnce ==
    hist.stopCloses <= 1 /\ panicked # "close of closed channel: stopped"

\* C2: the error slot holds the first error that was reported, and a later
\* report never takes its place.
C2_SlotHoldsFirstReported ==
    errCh # NoErr => errCh = hist.firstReported

\* No Stop call finds the signal closed under it while the timer has not fired.
NoCrashBeforeDeadline == ~timerFired => Alive

\* C3: when a stage error was reported before the timer fired and before
\* natural completion, SinkWithTimeout has raised cancellation when it
\* returns, it returns that error (the first one reported), and every record
\* the sink had received by then is in the list the caller gets.
IsPrefix(s, t) == Len(s) <= Len(t) /\ \A i \in 1..Len(s) : s[i] = t[i]

C4_TimeoutReturnsNil ==
    (Returned /\ hist.timedOut /\ hist.nReports = 0) => (retErr = NoErr /\ stopped)

C4_Witness ==
    /\ pc[Main] = "returned"
    /\ hist.timedOut
    /\ hist.nReports = 0
    /\ retErr = NoErr
    /\ \E c \in 0..N : ~closed[c]

\* C5: once the timer has fired, SinkWithTimeout can always take its next
\* step until it has returned: it waits for no stage worker.
MainStep == MainSelect \/ StopCheck(Main) \/ StopClose(Main) \/ MainReadErr

C5_ReturnsAfterDeadline ==
    (timerFired /\ ~Returned) => ENABLED MainStep

\* C6: the sink callback is never invoked after SinkWithTimeout has returned.
C6_SinkQuietAfterReturn == ~hist.sinkAfterRet

\* C7: no worker applies its stage function to an input it took from its
\* queue after the cancellation signal was raised.
C7_NoWorkAdmittedAfterStop == ~hist.lateApply

\* C7 (amended): after the signal is raised every goroutine completes at most
\* one further send, so a worker processes at most that many further inputs.
C7_AtMostOneLateSend == ~hist.lateTwice

C7_Witness ==
    /\ hist.lateApply
    /\ hist.lateSenders # {}
    /\ \E p \in hist.lateSenders : pc[p] = "done"

\* C8: a run that completes naturally returns only after every queue is
\* closed, and the sink has received exactly the records the stage functions
\* produce from the source batch (as a multiset).
RECURSIVE FlatMap(_, _, _)
FlatMap(F(_, _), i, s) ==
    IF s = << >> THEN << >> ELSE F(i, Head(s)) \o FlatMap(F, i, Tail(s))

RECURSIVE FirstOfEach(_, _)
FirstOfEach(s, seen) ==
    IF s = << >> THEN << >>
    ELSE IF Head(s).hash = "" \/ Head(s).hash \in seen THEN FirstOfEach(Tail(s), seen)
    ELSE << Head(s) >> \o FirstOfEach(Tail(s), seen \cup {Head(s).hash})

StageOutput(kind, i, s) ==
    CASE kind = "map" -> FlatMap(MapFn, i, s)
      [] kind = "channel" -> FlatMap(ChanFn, i, s)
      [] kind = "batch" -> BatchFn(i, s)
      [] OTHER -> FirstOfEach(s, {})

RECURSIVE PipelineOutput(_, _)
PipelineOutput(i, s) ==
    IF i > N THEN s ELSE PipelineOutput(i + 1, StageOutput(stages[i], i, s))

Ident(s) == [ j \in DOMAIN s |-> << s[j].hash, s[j].st >> ]

NaturalReturn == Returned /\ ~hist.timedOut /\ hist.nReports = 0

QueuesOf == (0..N) \cup { BatchCh(i) : i \in { j \in 1..N : stages[j] = "batch" } }

C8_NaturalCompletionConserves ==
    NaturalReturn =>
        /\ \A c \in QueuesOf : closed[c] /\ buf[c] = << >>
        /\ BagOfSeq(Ident(records)) = BagOfSeq(Ident(PipelineOutput(1, srcBatch)))

C8_Witness ==
    /\ NaturalReturn
    /\ ~timerFired
    /\ Len(records) >= 2
    /\ N = 2

\* C9: a queue is closed once, only after every goroutine that sends on it
\* has exited, and nothing is ever sent on a closed queue.
C9_LastWriterCloses ==
    /\ panicked # "send on closed channel"
    /\ panicked # "close of closed channel: queue"
    /\ \A i \in 1..N : closed[i] => \A q \in StageGoroutines(i) : pc[q] = "done"
    /\ \A i \in 1..N : (stages[i] = "batch" /\ closed[BatchCh(i)]) => pc[Acc(i)] = "done"
    /\ closed[0] => pc[Src] = "done"

C9_Witness ==
    /\ stopped
    /\ hist.nReports > 0
    /\ \A c \in QueuesOf : closed[c]
    /\ \E i \in 1..N : stages[i] = "batch"

\* C10: of the records with one non-empty identifier passed to the dedup
\* filter, exactly one is kept, the first that was passed; a record with an
\* empty identifier is never kept.
FirstWith(s, h) == s[CHOOSE j \in DOMAIN s : s[j].hash = h /\ \A m \in 1..(j - 1) : s[m].hash # h]

C10_DedupKeepsExactlyFirst ==
    /\ \A r \in Range(hist.dedupKept) : r.hash # ""
    /\ \A r \in Range(hist.dedupIn) : r.hash # "" =>
          /\ Cardinality({ j \in DOMAIN hist.dedupKept : hist.dedupKept[j].hash = r.hash }) = 1
          /\ FirstWith(hist.dedupIn, r.hash) \in Range(hist.dedupKept)

C10_Witness ==
    /\ Len(hist.dedupIn) >= 2
    /\ hist.dedupIn[1].hash # ""
    /\ hist.dedupIn[1].hash = hist.dedupIn[2].hash
    /\ Len(hist.dedupKept) = 1

\* ------------------------------------------------ batch stage (BatchSpec)
RECURSIVE Flatten(_)
Flatten(ss) == IF ss = << >> THEN << >> ELSE Head(ss) \o Flatten(Tail(ss))

CeilDiv(n, b) == (n + b - 1) \div b

\* The batch stage of the run and what it has finished.
TheBatchStage == CHOOSE i \in 1..N : stages[i] = "batch"
BatchStageDone == pc[Proc(TheBatchStage)] = "done"

\* Batches handed over but not yet passed to the function, and the one being
\* accumulated.
InFlight ==
    newBatch \o Flatten([ k \in 1..NumWorkers |->
        IF pc[W(TheBatchStage, k)] = "call" THEN cur[W(TheBatchStage, k)] ELSE << >> ])

C14_BatchConserves ==
    /\ \A g \in DOMAIN hist.groups : hist.groups[g] # << >> /\ Len(hist.groups[g]) <= BatchSize
    /\ ~stopped => BagOfSeq(Flatten(hist.groups) \o InFlight) = BagOfSeq(hist.batchIn)
    /\ \A j, m \in DOMAIN Flatten(hist.groups) :
          Flatten(hist.groups)[j] = Flatten(hist.groups)[m] => j = m
    /\ BatchStageDone =>
          /\ BagOfSeq(Flatten(hist.groups)) = BagOfSeq(hist.batchIn)
          /\ BagOfSeq(hist.batchIn) = BagOfSeq(srcBatch)

\* The input queue closed on a partly filled batch, which was then dispatched.
C14_Witness ==
    /\ BatchStageDone
    /\ shouldDrain
    /\ \E g \in DOMAIN hist.groups : Len(hist.groups[g]) < BatchSize
    /\ \E g \in DOMAIN hist.groups : Len(hist.groups[g]) = BatchSize
    /\ Len(Flatten(hist.groups)) = BatchInputs

\* ------------------------------------------- request handlers (AppSpec)
\* The records that have passed the dedup filter, and those the sink has.
AfterDedup == { r \in recs : r.at \in {"files", "locate", "sink", "sunk"} }
Delivered == { r \in recs : r.at \in {"sink", "sunk"} }
Passed(run, h) == { j \in DOMAIN filterLog[run] : filterLog[run][j] = << h, TRUE >> }

\* C11: the records delivered to the sink of one run have pairwise distinct,
\* non-empty identifiers, and so has every record between the dedup filter
\* and the sink: each carries an identifier the filter passed, once.
C11_SinkIdentifiersDistinct ==
    /\ \A r \in AfterDedup : r.tor.hash # "" /\ Cardinality(Passed(1, r.tor.hash)) = 1
    /\ \A r1, r2 \in AfterDedup : r1.tor.hash = r2.tor.hash => r1 = r2
    /\ \A r1, r2 \in Delivered : r1.id # r2.id => r1.tor.hash # r2.tor.hash

\* Two candidates with one identifier reached the filter; one was delivered
\* with its file list and media file, the other dropped as a duplicate.
C11_Witness ==
    /\ \E r \in recs : r.at = "dropped" /\ r.why = "duplicate"
    /\ \E r \in recs : r.at = "sunk" /\ r.files # << >> /\ r.mediaFile # << >>
    /\ Len(filterLog[1]) = 2

\* ----------------------------------------------- dedup filters (DedupSpec)
\* What a filter with a found set of its own answers to the j-th identifier
\* it is passed.
OwnVerdict(log, j) == log[j][1] # "" /\ \A m \in 1..(j - 1) : log[m][1] # log[j][1]

\* C12: whether a record passes the dedup filter of a request depends only
\* on the identifiers that request's filter was passed before, whatever the
\* filter of a concurrent request has seen.
C12_DedupSetPerRun ==
    \A run \in Runs :
        /\ \A j \in DOMAIN filterLog[run] : filterLog[run][j][2] = OwnVerdict(filterLog[run], j)
        /\ foundOf[run] = { filterLog[run][j][1] : j \in DOMAIN filterLog[run] } \ {""}

\* Both requests were passed the identifier "a", and both filters kept it.
C12_Witness ==
    /\ \A run \in Runs : Passed(run, "a") # {}
    /\ \E run \in Runs : Len(filterLog[run]) = MaxFilterCalls

\* ------------------------------------------- request handlers (AppSpec)
ProviderRecords == { r \in recs : r.at = "done" /\ r.prov > 0 }
Candidates(p) == { r \in recs : r.prov = p /\ r.id >= 10 }
DropReasons == {"excluded", "unresolved", "cache", "duplicate", "empty", "uncached", "nofile"}

C16_LookupFailureDegrades ==
    /\ errSlot # "files"
    /\ (last.fn = "enrichWithCachedFiles" /\ last.rd /\ last.failed) =>
          /\ ~last.err
          /\ last.outs = last.batch
          /\ \A j \in DOMAIN last.outs : last.outs[j].files = << >>

\* The lookup failed for a batch of two records, both of which went on.
C16_Witness ==
    /\ last.fn = "enrichWithCachedFiles"
    /\ last.rd /\ last.failed
    /\ Len(last.batch) = 2
    /\ \A j \in DOMAIN last.batch : \E r \in recs : r.id = last.batch[j].id /\ r.at = "locate"
    /\ cancelled = ""

\* C17: when the backend responds, a record of the batch is returned if and
\* only if its identifier is a key of the map GetFiles returned; what is
\* returned is the record with the file list of its identifier and nothing
\* else changed, in the order of the batch; the inputs are as they were.
C17_SurvivesIffKey ==
    (last.fn = "enrichWithCachedFiles" /\ last.rd /\ ~last.failed) =>
        /\ ~last.err
        /\ \A j \in DOMAIN last.batch :
              (\E k \in DOMAIN last.outs : last.outs[k].id = last.batch[j].id)
                  <=> last.batch[j].tor.hash \in DOMAIN last.filesByHash
        /\ \A k \in DOMAIN last.outs :
              \E j \in DOMAIN last.batch :
                  /\ last.batch[j].tor.hash \in DOMAIN last.filesByHash
                  /\ last.outs[k] =
                        [last.batch[j] EXCEPT !.files = last.filesByHash[last.batch[j].tor.hash]]
        /\ \A k, m \in DOMAIN last.outs : k < m => last.outs[k].id < last.outs[m].id
        /\ last.ins = last.batch

\* The backend answered for one of two records: one survived, one did not.
C17_Witness ==
    /\ last.fn = "enrichWithCachedFiles"
    /\ last.rd /\ ~last.failed
    /\ Len(last.batch) = 2
    /\ Len(last.outs) = 1
    /\ last.outs[1].files # << >>

C19_DroppedIffUnresolved ==
    /\ errSlot # "cache" /\ errSlot # "unresolved"
    /\ last.fn = "enrichInfoHash" =>
          /\ ~last.err
          /\ last.emitted <=> last.resolved # ""

\* C20: every record delivered to the sink has its TitleInfo and its
\* MediaFile set.
C20_DeliveredHaveTitleAndFile ==
    \A r \in Delivered : r.titleInfo # "nil" /\ r.mediaFile # << >>

\* Delivered after a failed lookup, with a client but no file list.
C20_Witness ==
    /\ world.rd
    /\ last.fn = "enrichWithCachedFiles" /\ last.failed
    /\ \E r \in recs : r.at = "sunk" /\ r.files = << >> /\ r.mediaFile # << >>
    /\ \E r \in recs : r.at = "dropped" /\ r.why = "nofile"

\* -------------------------------------------------- scoring (ScoreSpec)
\* The rank table, the size bands (in tenths of a GB) and the two worked
\* examples as the claim gives them.
TierRank ==
    [ q \in Qualities |->
        CASE q \in {"bdremux", "brremux"} -> 10
          [] q \in {"web-dl", "webrip"} -> 9
          [] q = "bluray" -> 8
          [] q = "hdrip" -> 7
          [] q = "dvdrip" -> 6
          [] q = "dvd" -> 5
          [] q = "tvrip" -> 4
          [] q \in {"cam", "camrip", "telesync", "tsrip"} -> 1
          [] OTHER -> 3 ]
BandsOf(res) ==
    IF res >= 2160 THEN << <<150, 300>>, <<100, 400>>, <<50, 500>> >>
    ELSE IF res >= 1080 THEN << <<40, 150>>, <<20, 200>>, <<10, 250>> >>
    ELSE IF res >= 720 THEN << <<10, 80>>, <<5, 120>>, <<3, 150>> >>
    ELSE << <<5, 40>>, <<2, 60>>, <<1, 80>> >>
InBand(sz, b) == b[1] <= sz /\ sz <= b[2]
BandScore(res, sz) ==
    LET b == BandsOf(res)
    IN IF InBand(sz, b[1]) THEN 100 ELSE IF InBand(sz, b[2]) THEN 80
       ELSE IF InBand(sz, b[3]) THEN 60 ELSE 20
Example4K == Scored(1, 2160, "bluray", 250, 0, TRUE)
Example1080 == Scored(1, 1080, "web-dl", 80, 150, FALSE)

DocumentedSourceScore ==
    [ q \in {"web-dl", "bluray", "webrip", "hdtv", "hdcam", "cam"} |->
        CASE q = "web-dl" -> 100 [] q = "bluray" -> 80 [] q = "webrip" -> 70
          [] q = "hdtv" -> 60 [] q = "hdcam" -> 30 [] q = "cam" -> 10 ]

\* C28: the source-quality score the ranking uses for Web-DL, BluRay,
\* WEBRip, HDTV, HDCAM and CAM is the documented one (100, 80, 70, 60, 30, 10).
C28_DocumentedSourceScores ==
    (last.fn = "calculateQualityScore" /\ last.r.quality \in DOMAIN DocumentedSourceScore) =>
        last.sourceScore = DocumentedSourceScore[last.r.quality]

\* --------------------------------------- exclusion filter (ExcludeSpec)
\* The minimum a caller asked for, where the field holds a positive number.
AskedMin == [ s \in {"1", "3"} |-> IF s = "1" THEN 1 ELSE 3 ]

\* C29: whatever the caller sent for the minimum of seeders, a record with
\* no seeder is dropped; a record passes the seeders check only with at
\* least one seeder, and with at least the positive number the caller asked
\* for; when the caller sent zero the check is exactly "at least one".
C29_SeederExclusion ==
    last.fn = "excludeTorrents" =>
        /\ last.r.seeders = 0 => ~last.ok
        /\ last.seedersOK => last.r.seeders >= 1
        /\ (~last.base /\ world.u.minSeeders \in DOMAIN AskedMin /\ last.seedersOK) =>
              last.r.seeders >= AskedMin[world.u.minSeeders]
        /\ (~last.base /\ world.u.minSeeders = "0") =>
              (last.seedersOK <=> last.r.seeders >= 1)

\* The caller sent zero and a record with one seeder passed the filter.
C29_Witness ==
    /\ last.fn = "excludeTorrents"
    /\ ~last.base /\ world.u.minSeeders = "0"
    /\ last.r.seeders = 1
    /\ last.ok

\* C30: with excludedQualities unset or empty every record of quality cam
\* is dropped, and a record flagged 3D is dropped under every configuration.
C30_QualityExclusion ==
    last.fn = "excludeTorrents" =>
        /\ ((last.base \/ world.u.excluded = << >>) /\ last.r.quality = "cam") => ~last.ok
        /\ last.r.threeD => ~last.ok

\* A 3D record that passes every other check was dropped under a
\* configuration that excludes only dvd.
C30_Witness ==
    /\ last.fn = "excludeTorrents"
    /\ ~last.base /\ world.u.excluded = << Plain("dvd") >>
    /\ last.r.threeD /\ last.r.quality = "bluray"
    /\ last.seedersOK /\ SizeOK(last.u, last.r) /\ ResolutionOK(last.u, last.r) /\ last.imdbOK
    /\ ~last.ok

\* ---------------------------------------------------------------- ranking
QualityRun(run) == ranked[run] # << >> /\ world.sortMethod \in {"", "quality"}

\* The number of the records of list s that are the record x.
CountIn(s, x) == Cardinality({ i \in DOMAIN s : s[i] = x })
IsPermutation(s, t) ==
    /\ Len(s) = Len(t)
    /\ \A i \in DOMAIN s : CountIn(t, s[i]) = CountIn(s, s[i])
    /\ \A i \in DOMAIN t : CountIn(s, t[i]) = CountIn(t, t[i])

\* C21: the output of sortByQualityScore is a permutation of its input, and
\* every record in it scores at least as much as the record that follows it.
C21_SortedPermutation ==
    QualityRun(1) =>
        LET out == ranked[1][1]
        IN /\ IsPermutation(arrived[1], out)
           /\ \A i \in 1..(Len(out) - 1) :
                  CalculateQualityScore(out[i]) >= CalculateQualityScore(out[i + 1])

\* A quality sort that had to move records: the input ascended somewhere.
C21_Witness ==
    /\ QualityRun(1)
    /\ Len(arrived[1]) >= 3
    /\ ranked[1][1] # arrived[1]
    /\ \E i \in DOMAIN arrived[1] : \E j \in DOMAIN arrived[1] :
           i < j /\ CalculateQualityScore(arrived[1][i]) < CalculateQualityScore(arrived[1][j])

\* C22: the quality sort is stable: two records with equal score come out
\* of sortByQualityScore in the relative order they had in its input.
C22_StableSort ==
    QualityRun(1) =>
        LET out == ranked[1][1]
        IN \A i \in DOMAIN out : \A j \in DOMAIN out :
               (/\ i < j
                /\ CalculateQualityScore(out[i]) = CalculateQualityScore(out[j]))
               => out[i].id < out[j].id

\* C24: groupByResolution(records, m) returns per-resolution groups one after
\* another, 720, 1080, 2160, 480, 360 first and every other resolution after
\* them; a group holds records of one resolution only, in descending score,
\* the min(m, group size) highest-scoring of that resolution; no record twice.
PlaceOf(res) ==
    IF \E k \in DOMAIN ResolutionOrder : ResolutionOrder[k] = res
    THEN CHOOSE k \in DOMAIN ResolutionOrder : ResolutionOrder[k] = res
    ELSE Len(ResolutionOrder) + 1

Grouped == last.fn = "groupByResolution"

C24_OtherGroupsEitherOrder ==
    /\ Grouped
    /\ \E i \in DOMAIN last.out : \E j \in DOMAIN last.out :
           i < j /\ last.out[i].res = 0 /\ last.out[j].res = 576

Responded(run) == streams[run] # << >>

\* C25: for either sort method the delivered list has length min(5, n), n the
\* number of ranked records, and is the first min(5, n) ranked records in the
\* same order.
C25_DeliveryCap ==
    Responded(1) =>
        LET out == streams[1][1]
            rk == ranked[1][1]
        IN /\ Len(out) = Min(5, Len(rk))
           /\ \A i \in DOMAIN out : RecordOf(out[i]) = rk[i].id

\* A response cut to five of six ranked records, one of them cached.
C25_Witness ==
    /\ Responded(1)
    /\ Len(ranked[1][1]) = 6
    /\ Len(streams[1][1]) = 5
    /\ \E i \in DOMAIN streams[1][1] : "url" \in DOMAIN streams[1][1][i]

\* A response that holds every ranked record, fewer than five.
C25_WitnessShort ==
    /\ Responded(1)
    /\ Len(ranked[1][1]) = 3
    /\ Len(streams[1][1]) = 3

DiversityRun(run) == Responded(run) /\ world.sortMethod \notin {"", "quality"}

\* C26: with the diversity sort method, whenever the surviving records hold a
\* 720p, a 1080p and a 2160p record, the delivered list holds a record of each
\* of the three resolutions.
C26_DiversityDelivery ==
    (/\ DiversityRun(1)
     /\ \A res \in {720, 1080, 2160} : \E x \in world.survivors : x.res = res)
    => \A res \in {720, 1080, 2160} :
           \E i \in DOMAIN streams[1][1] : streams[1][1][i].name[1] = res

\* C23: the ranked output is deterministic: two requests that complete with
\* the same surviving records deliver the same ordered list, whatever the
\* order in which the records reached their sinks.
C23_DeterministicRanking ==
    (\A run \in Runs : Responded(run)) =>
        \A a \in Runs : \A b \in Runs : streams[a] = streams[b]

\* -------------------------------------------------------- content checks
Excluded3 == last.fn = "excludeTorrents"

\* C31: the exclusion filter rejects a record on external-id grounds only
\* when the candidate and the resolved metadata both carry an id and the two
\* differ; a candidate with an id is not rejected when the metadata has none.
C31_ExternalIdCheck ==
    Excluded3 =>
        (~last.imdbOK <=>
            /\ last.r.imdb # 0
            /\ last.r.meta.imdbID # 0
            /\ last.r.imdb # last.r.meta.imdbID)

Located == last.fn = "locateMediaFile"

\* C32: every record the media-file locator emits has a selected file whose
\* size is within the absolute floor and ceiling, 100 MB and 30 GB, whether
\* the file comes from the enriched list or is the descriptor built from the
\* candidate, under every size configuration of the caller.
C32_AbsoluteSizeBound ==
    Located =>
        \A j \in DOMAIN last.outs :
            /\ last.outs[j].mediaFile[1].size >= 1
            /\ last.outs[j].mediaFile[1].size <= 300

\* The part that holds: a file chosen from the enriched list is in bounds.
C32_EnrichedInBounds ==
    (Located /\ world.rd /\ world.r.files # << >>) =>
        \A j \in DOMAIN last.outs :
            /\ last.outs[j].mediaFile[1].size >= 1
            /\ last.outs[j].mediaFile[1].size < 300

\* ---------------------------------------------------------------- deadline
TimedCall == last.fn = "sinkResultsWithTimeout"

\* C33: for every search-timeout value of the caller the effective deadline
\* is within 10 and 120 seconds, and when the caller leaves it unset (base
\* route, or an empty field) the deadline is 45 seconds.
C33_DeadlineConfiguration ==
    TimedCall =>
        /\ last.seconds >= 10 /\ last.seconds <= 120
        /\ (last.base \/ world.u.searchTimeout = "") => last.seconds = 45

\* The part that holds: the deadline is within bounds, the caller's value
\* when that is a number from 10 to 120, and 45 for any other value given.
C33_DeadlineInBounds ==
    TimedCall =>
        /\ last.seconds >= 10 /\ last.seconds <= 120
        /\ (~last.base /\ world.u.searchTimeout \in {"0", "1", "9", "121", "-2", "abc"})
               => last.seconds = 45
        /\ (~last.base /\ world.u.searchTimeout = "120") => last.seconds = 120

\* ----------------------------------------------------------- one request
Answered == last.fn = "HandleGetStreams"

\* C34: a failure of the seed construction or of the metadata resolution is
\* reported to the caller of the search as an error; a timeout, a provider
\* failure, dropped records and a failed availability lookup are not.
C34_FatalFailuresSurfaced ==
    (Answered /\ last.status # 400) =>
        (last.error <=> errSlot \in {"source", "meta"})

\* The part that holds: no answer to an accepted request carries an error.
C34_NoErrorEver ==
    (Answered /\ last.status # 400) => ~last.error /\ last.status = 200

\* C35: under every accepted configuration and every valid seed no stage
\* runs against an absent client: the fan-out to the indexers is never
\* reached with no Prowlarr client on the record.
C35_NoAbsentClient ==
    last.fn = "fanOutToAllIndexers" => ~last.panic

\* ---------------------------------------------------------------- liveness
\* The goroutines that have filled the error slot and are inside Stop.
Raising == { p \in Reporters : pc[p] \in {"rstop_check", "rstop_close"} }

\* C36: reporting an error always raises cancellation: whenever the error
\* slot is full and the cancellation signal is not raised, the call that
\* filled the slot is inside Stop, and the signal is raised in the end,
\* whether or not the deadline expires.
C36_ReportRaisesCancellation ==
    /\ [](errCh # NoErr /\ ~stopped => Raising # {})
    /\ (errCh # NoErr) ~> stopped

\* Two calls have reported, the slot kept the first error, the second call
\* returned through its default branch, and the signal is not raised yet.
C36_Witness ==
    /\ hist.nReports >= 2
    /\ errCh # NoErr
    /\ ~stopped
    /\ ~timerFired
    /\ Cardinality(Raising) = 1

\* The records a call has sent when it sent the first k of n: <<phase, 1>>,
\* ..., <<phase, k>>.
SentOf(phase, k) == [ j \in 1..k |-> <<phase, j>> ]

\* C37: the season query is issued exactly for a series whose initial query
\* succeeded with as many torrents as the provider's default limit, that
\* limit being positive, when the signal was not raised at the test that
\* follows the initial results; never for a movie; and what it lists is
\* sent after every record of the initial query.
C37_SeasonFollowUp ==
    last.fn = "searchForTorrents" =>
        /\ last.at = "returned" =>
              (last.season <=> /\ world.ctype = "series"
                               /\ ~world.prim.err
                               /\ world.prim.n = world.limit
                               /\ world.limit > 0
                               /\ last.check = "clear")
        /\ world.ctype = "movie" => ~last.season
        /\ last.season =>
              \E k \in 0..Listed(world.seas) :
                  last.sent = SentOf("initial", world.prim.n) \o SentOf("season", k)

\* A series call that sent a full page of two, issued the season query and
\* sent its two torrents, the signal being raised only afterwards.
C37_Witness ==
    /\ last.fn = "searchForTorrents" /\ last.at = "returned"
    /\ last.season
    /\ world.limit = MaxAnswers
    /\ Len(last.sent) = 2 * MaxAnswers
    /\ cancelled # ""

\* A series call with a full page that issued no season query: the signal
\* was raised before the test.
C37_WitnessStopped ==
    /\ last.fn = "searchForTorrents" /\ last.at = "returned"
    /\ world.ctype = "series" /\ world.prim.n = world.limit /\ world.limit > 0
    /\ Len(last.sent) = world.limit
    /\ ~last.season

\* The workers of the observed stage that are inside the stage's function.
InProgress == { w \in DOMAIN last.held : last.held[w] > 0 }

\* C38: the calls of one stage's function that are in progress never exceed
\* the stage's pool: 10 for the incremental-emit stage, 2 for the batch
\* stage, 10 for identifier enrichment, 5 for every other generic stage;
\* and no call holds more than 10 records.
C38_BoundedPools ==
    last.fn = "process" =>
        /\ Cardinality(InProgress) <=
              CASE world.stage.kind = "channel" -> 10
                [] world.stage.kind = "batch" -> 2
                [] world.stage.name = "enrichInfoHash" -> 10
                [] OTHER -> 5
        /\ \A w \in InProgress :
              last.held[w] <= IF world.stage.kind = "batch" THEN 10 ELSE 1

\* Both batch workers are in a call, one of them with a full group of ten,
\* while records are still waiting.
C38_Witness ==
    /\ last.fn = "process"
    /\ world.stage.kind = "batch"
    /\ Cardinality(InProgress) = 2
    /\ \E w \in InProgress : last.held[w] = 10
    /\ last.pending > 0

\* Every worker of a generic stage with the default pool is in a call and
\* records are still waiting.
C38_WitnessDefault ==
    /\ last.fn = "process"
    /\ world.stage.name = "locateMediaFile"
    /\ Cardinality(InProgress) = 5
    /\ last.pending > 0

\* Every goroutine the run started has exited and every queue is closed.
ShutDown ==
    /\ \A p \in Procs \ {Main} : pc[p] \in {"done", "none"}
    /\ \A c \in QueuesOf : closed[c]

\* C39: once the cancellation signal is raised, every stage worker, the
\* batch accumulator, the source and the sink goroutine exit and every queue
\* is closed in the end: no goroutine stays blocked on a queue.
C39_ShutdownAfterCancellation == stopped ~> ShutDown

\* Short of the second close of the signal, which ends the process, a run
\* whose signal is raised does shut down.
C39_ShutdownUnlessPanic == stopped ~> (ShutDown \/ panicked # "")

\* C40: what one SendRecords call has put on the output queue is a prefix of
\* its list, in the list's order; no record is sent in an iteration that
\* began with the signal raised; and a call that returns with the signal
\* never raised has sent the whole list.
C40_SendsPrefixInOrder ==
    last.fn = "SendRecords" =>
        /\ Len(last.sent) <= Len(world.list)
        /\ last.sent = SubSeq(world.list, 1, Len(last.sent))
        /\ Len(last.sent) = last.i - 1
        /\ ~last.lateStart
        /\ (last.at = "returned" /\ cancelled = "") => last.sent = world.list

\* A call on three records returned after two sends, the signal having
\* been raised before the third.
C40_Witness ==
    /\ last.fn = "SendRecords" /\ last.at = "returned"
    /\ Len(world.list) = MaxSendLen
    /\ Len(last.sent) = MaxSendLen - 1
    /\ cancelled # ""

\* A call returned having sent its whole list of three, the signal never
\* raised.
C40_WitnessWhole ==
    /\ last.fn = "SendRecords" /\ last.at = "returned"
    /\ cancelled = ""
    /\ Len(last.sent) = MaxSendLen
====
